---------------------------- MODULE Spec2Model ----------------------------
(***************************************************************************)
(* Model of the batch performance-test scripts of the repository:          *)
(*   - runBatchTest, local-devnet variant   (src/unnamed/part_012)         *)
(*   - runBatchTest, Madara variant         (src/unnamed/part_017)         *)
(*   - the read/write split of runBatchTest and runOptimizedBatchTest      *)
(*     (src/unnamed/part_012, src/unnamed/part_018)                        *)
(*   - the performanceTest contract          (src/unnamed/part_009)        *)
(*   - the blend mode of runOptimizedBatchTest                             *)
(*     (src/unnamed/part_018)                                              *)
(*   - fundAccountsMadara                    (src/unnamed/part_013)        *)
(*   - deployAccountsMadara                                                *)
(*     (src/starknet-test-js/deployAccountsMadara.js)                      *)
(*   - the command line of the batch scripts                               *)
(*     (src/unnamed/part_012, part_017, part_018)                          *)
(* The remote ledger (RPC node) is the environment: every remote call is   *)
(* a suspension point whose outcome the environment chooses.  The waits of *)
(* the backoff are part of the step that issues the next call.             *)
(***************************************************************************)
EXTENDS Integers, Sequences, FiniteSets, TLC

(***************************************************************************)
(* Bounds of the model.                                                    *)
(***************************************************************************)
\* The split: batchSize ranges over 1..MaxSplitBatch and readRatio over the
\* doubles nearest to k/RatioDen, k in 0..RatioDen.
MaxSplitBatch == 10
RatioDen == 10

\* runBatchTest: the accounts handed in, the requested batchSize, bundleSize
\* and concurrency range over 1..Max, a balance over 0..MaxBalance hundredths
\* of a STRK, and readRatio over k/RunRatioDen, k in 0..RunRatioDen.
MaxAccounts == 2
MaxBatch == 2
MaxBundle == 2
MaxConc == 2
MaxBalance == 5
RunRatioDen == 2

\* The remote calls of the pool's operations and of the retry pass that the
\* ledger lets fail in one run.
MaxFaults == 5

\* The fee the ledger charges for a transaction and shows as actual_fee on
\* its receipt, in units of 10^-18 STRK.
TxFee == 1

\* The performanceTest contract: callers and addresses are 1..MaxAddr, a
\* balance is in 0..MaxValue, batch_update is given at most MaxUpdates pairs,
\* and the tracked list grows to at most MaxTracked entries.
MaxAddr == 2
MaxValue == 1
MaxUpdates == 1
MaxTracked == 2

\* runOptimizedBatchTest: the nonce the ledger holds for an account when the
\* run starts is in 0..MaxBaseNonce.
MaxBaseNonce == 1

\* runOptimizedBatchTest: at most MaxPrepAccounts accounts with a sufficient
\* balance and a requested batchSize of at most MaxPrepBatch.
MaxPrepAccounts == 3

MaxPrepBatch == 3

\* runOptimizedBatchTest: readRatio is k / PrepRatioDen for k in
\* 0..PrepRatioDen.
PrepRatioDen == 3

\* The contract's batch records: batch_id in 0..MaxBatchId, num_items in
\* 0..MaxItems, and calls that leave at most MaxBatches entries on the
\* batch-id list.
MaxBatchId == 2

MaxItems == 1

MaxBatches == 3

\* fundAccountsMadara: at most MaxFundAccounts test accounts.
MaxFundAccounts == 3

\* The command line: batchSize is absent or in 0..MaxArgBatch, readRatio is
\* absent or the decimal of k / ArgRatioDen for k in 0..ArgRatioDen, and
\* 1..MaxArgAccounts accounts have a sufficient balance.
MaxArgBatch == 3

ArgRatioDen == 4

MaxArgAccounts == 2

\* deployAccountsMadara: at most MaxDeployAccounts test accounts.
MaxDeployAccounts == 2

(***************************************************************************)
(* IEEE-754 double arithmetic, as far as Math.floor(batchSize * (1 -       *)
(* readRatio)) needs it.  A natural number is a sequence of base-65536     *)
(* digits, least significant first; a double in [0, 2^10) is held as the   *)
(* natural number value * 2^64.                                            *)
(***************************************************************************)
RECURSIVE NatToLimbs(_)
NatToLimbs(n) ==
    IF n = 0 THEN << >> ELSE << n % 65536 >> \o NatToLimbs(n \div 65536)

RECURSIVE LimbsToNat(_)
LimbsToNat(x) == IF x = << >> THEN 0 ELSE Head(x) + 65536 * LimbsToNat(Tail(x))

RECURSIVE Pow2(_)
Pow2(s) == IF s = 0 THEN 1 ELSE 2 * Pow2(s - 1)

RECURSIVE SmallBitLen(_)
SmallBitLen(n) == IF n = 0 THEN 0 ELSE 1 + SmallBitLen(n \div 2)

Trim(x) ==
    LET nz == {i \in 1..Len(x) : x[i] # 0}
    IN  IF nz = {} THEN << >>
        ELSE SubSeq(x, 1, CHOOSE i \in nz : \A j \in nz : j <= i)

BitLen(x) ==
    LET t == Trim(x)
    IN  IF t = << >> THEN 0 ELSE 16 * (Len(t) - 1) + SmallBitLen(t[Len(t)])

RECURSIVE MulCarry(_, _, _)
MulCarry(x, m, carry) ==
    IF x = << >> THEN NatToLimbs(carry)
    ELSE LET t == Head(x) * m + carry
         IN  << t % 65536 >> \o MulCarry(Tail(x), m, t \div 65536)

MulSmall(x, m) == MulCarry(x, m, 0)

RECURSIVE SubBorrow(_, _, _)
SubBorrow(x, y, borrow) ==
    IF x = << >> THEN << >>
    ELSE LET d == IF y = << >> THEN 0 ELSE Head(y)
             t == Head(x) - d - borrow
         IN  << IF t < 0 THEN t + 65536 ELSE t >>
             \o SubBorrow(Tail(x), IF y = << >> THEN << >> ELSE Tail(y),
                          IF t < 0 THEN 1 ELSE 0)

SubLimbs(x, y) == SubBorrow(x, y, 0)

RECURSIVE AddOne(_)
AddOne(x) ==
    IF x = << >> THEN << 1 >>
    ELSE IF Head(x) < 65535 THEN << Head(x) + 1 >> \o Tail(x)
         ELSE << 0 >> \o AddOne(Tail(x))

RECURSIVE DivSmall(_, _)
DivSmall(x, d) ==
    IF x = << >> THEN [q |-> << >>, r |-> 0]
    ELSE LET hi  == DivSmall(Tail(x), d)
             cur == 65536 * hi.r + Head(x)
         IN  [q |-> << cur \div d >> \o hi.q, r |-> cur % d]

ShiftLimbs(x, a) == [i \in 1..a |-> 0] \o x

\* x * 2^e
ShiftLeftBits(x, e) == ShiftLimbs(MulSmall(x, Pow2(e % 16)), e \div 16)

\* floor(x / 2^e), and whether the division is exact
FloorDivPow2(x, e) ==
    LET a    == e \div 16
        low  == SubSeq(x, 1, IF a < Len(x) THEN a ELSE Len(x))
        high == IF Len(x) <= a THEN << >> ELSE SubSeq(x, a + 1, Len(x))
        dv   == DivSmall(high, Pow2(e % 16))
    IN  [q |-> dv.q, exact |-> dv.r = 0 /\ \A i \in 1..Len(low) : low[i] = 0]

\* Round to nearest, ties to even, to the 53 significant bits of a double.
\* sticky: the exact value lies strictly above x (a division left a rest).
Round53(x, sticky) ==
    LET n == BitLen(x)
        d == n - 53
    IN  IF d <= 0 THEN Trim(x)
        ELSE LET h    == FloorDivPow2(x, d - 1)
                 g    == DivSmall(h.q, 2)
                 rest == sticky \/ ~h.exact
                 up   == g.r = 1 /\ (rest \/ g.q[1] % 2 = 1)
             IN  ShiftLeftBits(IF up THEN AddOne(g.q) ELSE g.q, d)

One == ShiftLimbs(<< 1 >>, 4)

\* The double nearest to the decimal k/den (what parseFloat and a number
\* literal give), 0 <= k <= den.
DoubleOf(k, den) ==
    LET x == DivSmall(ShiftLimbs(NatToLimbs(k), 4), den)
    IN  Round53(x.q, x.r # 0)

\* 1 - readRatio in double arithmetic.
OneMinus(r) == Round53(SubLimbs(One, r), FALSE)

\* batchSize * x in double arithmetic.
TimesBatch(batchSize, x) == Round53(MulSmall(x, batchSize), FALSE)

\* Math.floor of a non-negative double.
MathFloor(x) == LimbsToNat(FloorDivPow2(x, 64).q)

\* numWrites = Math.floor(batchSize * (1 - readRatio)), readRatio = k/den.
NumWritesOf(batchSize, k, den) ==
    MathFloor(TimesBatch(batchSize, OneMinus(DoubleOf(k, den))))

\* numReads = batchSize - numWrites.
NumReadsOf(batchSize, k, den) == batchSize - NumWritesOf(batchSize, k, den)


(***************************************************************************)
(* Program constants.                                                      *)
(***************************************************************************)
\* MIN_BALANCE = 0.05 STRK, in hundredths of a STRK.
MIN_BALANCE == 5

\* retryWithBackoff(fn, maxRetries = 3, baseDelay = 1000)
BackoffMaxRetries == 3

\* fundAccountsMadara and deployAccountsMadara: const CONCURRENCY = 1
CONCURRENCY == 1

\* deployAccount: const maxRetries = 3
DeployMaxRetries == 3

\* const batchSizeArg = parseInt(args[0]) || 50
DefaultBatchSize == 50

\* retryWithBackoff(fn, maxRetries = 3, baseDelay = 1000)
ReadMaxRetries == 3

\* const maxRetries = 3 (rwr submit loop, local variant)
LocalMaxRetries == 3

\* const maxRetries = 5 (rwr submit loop, Madara variant)
MadaraMaxRetries == 5

\* const confirmLimit = pLimit(10) (Madara variant)
ConfirmLimit == 10

(***************************************************************************)
(* The nonce values the Madara rwr code computes with.  account.getNonce   *)
(* resolves with the nonce as the ledger sends it, a hex string ("0x1a";   *)
(* the other call sites convert it, BigInt(currentNonce), Number(nonce));  *)
(* the fallback of the pre-fetch is the BigInt 0n.  A value is a BigInt n  *)
(* or a string "0x" followed by `digits`.                                  *)
(***************************************************************************)
RECURSIVE HexDigitsOf(_)
HexDigitsOf(n) ==
    IF n < 16 THEN << n >> ELSE HexDigitsOf(n \div 16) \o << n % 16 >>

\* BigInt(k).toString()
RECURSIVE DecDigitsOf(_)
DecDigitsOf(n) ==
    IF n < 10 THEN << n >> ELSE DecDigitsOf(n \div 10) \o << n % 10 >>

RECURSIVE HexValue(_)
HexValue(d) ==
    IF d = << >> THEN 0
    ELSE 16 * HexValue(SubSeq(d, 1, Len(d) - 1)) + d[Len(d)]

NoNonce == [kind |-> "none", n |-> 0, digits |-> << >>]

JsBigInt(n) == [kind |-> "bigint", n |-> n, digits |-> << >>]

\* What getNonce resolves with when the ledger holds nonce n.
JsString(n) == [kind |-> "string", n |-> 0, digits |-> HexDigitsOf(n)]

\* The number the SDK sends for the option nonce: v: BigInt(v).
ToBigInt(v) == IF v.kind = "string" THEN HexValue(v.digits) ELSE v.n

\* v + BigInt(k): a sum of BigInts, a concatenation when v is a string.
JsPlusBigInt(v, k) ==
    IF v.kind = "string" THEN [v EXCEPT !.digits = @ \o DecDigitsOf(k)]
    ELSE JsBigInt(v.n + k)

\* x > y on strings: by code units, a proper prefix being the smaller.
RECURSIVE LexGreater(_, _)
LexGreater(x, y) ==
    IF x = << >> THEN FALSE
    ELSE IF y = << >> THEN TRUE
    ELSE IF Head(x) # Head(y) THEN Head(x) > Head(y)
    ELSE LexGreater(Tail(x), Tail(y))

\* a > b: two strings compare as strings, anything else as numbers.
JsGreater(a, b) ==
    IF a.kind = "string" /\ b.kind = "string"
    THEN LexGreater(a.digits, b.digits)
    ELSE ToBigInt(a) > ToBigInt(b)

(***************************************************************************)
(* State.                                                                  *)
(***************************************************************************)
VARIABLES
    sBatch,     \* split: batchSize
    sRatio,     \* split: readRatio, in units of 1/RatioDen
    sFn,        \* split: which function computes it
    sWrites,    \* split: numWrites (-1 before the split)
    sReads,     \* split: numReads  (-1 before the split)
    cfg,        \* runBatchTest's arguments and the script that runs
    mainPc,     \* where runBatchTest itself stands
    cause,      \* why runBatchTest threw, "none" while it has not
    chk,        \* the eligibility checks behind deployedCheckLimit and
                \* sufficientAccountsLimit: tasks queued, running, passed
    run,        \* testAccounts.length, batchSize, numReads, numWrites, opTypes
                \* once the eligibility checks are over
    ops,        \* the operations given to limit(...), by loop index b
    shared,     \* opIndex, sentCount, and the outstanding balance reads
    failedWrites,   \* blend: the retry list
    writeTxHashes,  \* the hashes of the submitted transactions, each named by
                \* the operation that sent it
    chain,      \* the ledger: each account's next nonce
    retry,      \* the retry pass: position in failedWrites and step
    nonces,     \* Madara rwr: pre-fetch state, accountBaseNonces and
                \* accountNonceCounters
    rcpt,       \* confirmation of each submitted transaction
    tally,      \* reads that succeeded, final reads outstanding
    report,     \* what the final report printed, "none" before it
    faults,     \* remote calls of the operations that have failed so far
    admin_address,  \* contract storage: admin_address
    balances,       \* contract storage: balances
    addresses,      \* contract storage: addresses, by index
    address_count,  \* contract storage: address_count
    lastCall,       \* the last call of the contract: entry point, caller,
                    \* outcome and returned value
    batch_infos,    \* contract storage: batch_infos
    batch_ids,      \* contract storage: batch_ids, by index
    batch_count,    \* contract storage: batch_count
    pCfg,           \* runOptimizedBatchTest: its arguments, with the
                    \* accounts that passed the balance check
    pRun,           \* batchSize, numWrites, numReads, numBundles and
                    \* usedAccounts.length
    pPc,            \* where runOptimizedBatchTest stands
    ledgerNonce,    \* the nonce the ledger holds for each account
    accountNonces,  \* the Map accountNonces
    pB,             \* the loop variable b of the preparation
    writeIdx,       \* writeIdx
    preparedTransactions,   \* preparedTransactions: account, nonce and the
                    \* new_balance values of the bundleCalls of each
    signedTransactions,     \* the promises of signedTransactions
    submitOps,      \* the promises of submitOps, each with the index of its
                    \* prepared transaction
    oWriteTxHashes, \* writeTxHashes of runOptimizedBatchTest, as indices
                    \* of prepared transactions
    receiptPromises,        \* the promises of receiptPromises
    readOps,        \* the promises of readOps, each with the attempt of
                    \* retryWithBackoff it is in
    timers,         \* the timestamps taken so far
    fAccounts,      \* fundAccountsMadara: testAccounts.length
    fPc,            \* where main of fundAccountsMadara stands
    balanceChecks,  \* the promises of balanceChecks
    fundingOps,     \* the promises of fundingOps, each with the nonce it
                    \* fetched
    funderNonce,    \* the nonce the ledger holds for the funder account
    fundedCount,    \* fundedCount
    fFailedCount,   \* failedCount of fundAccountsMadara
    dAccounts,      \* deployAccountsMadara: testAccounts.length
    dPc,            \* where main of deployAccountsMadara stands
    deploymentChecks,       \* the promises of deploymentChecks
    deploymentOps,  \* the promises of deploymentOps, each with the attempt of
                    \* the deployment and the error thrown in deployAccount
    deployedCount,  \* deployedCount
    dFailedCount,   \* failedCount of deployAccountsMadara
    failedAccountsFile,     \* failed-accounts-deployment.json was written
    aScript,        \* command line: the script that is run
    args,           \* process.argv.slice(2): batchSize and readRatio
    aAccounts,      \* the accounts with a sufficient balance
    aPc,            \* command line: where the script stands
    batchSizeArg,   \* batchSizeArg
    readRatioArg,   \* readRatioArg, as the decimal k/den it is nearest to
    aBatch,         \* batchSize at the split (-1 before it)
    aWrites,        \* numWrites (-1 before the split)
    aReads          \* numReads (-1 before the split)

splitVars == << sBatch, sRatio, sFn, sWrites, sReads >>

contractVars == << admin_address, balances, addresses, address_count,
                   lastCall, batch_infos, batch_ids, batch_count >>

prepVars == << pCfg, pRun, pPc, ledgerNonce, accountNonces, pB, writeIdx,
               preparedTransactions, signedTransactions, submitOps,
               oWriteTxHashes, receiptPromises, readOps, timers >>

runVars == << cfg, mainPc, cause, chk, run, ops, shared, failedWrites,
              writeTxHashes, chain, retry, nonces, rcpt, tally, report, faults >>

vars == << sBatch, sRatio, sFn, sWrites, sReads, cfg, mainPc, cause, chk, run,
           ops, shared, failedWrites, writeTxHashes, chain, retry, nonces,
           rcpt, tally, report, faults, admin_address, balances, addresses,
           address_count, lastCall, batch_infos, batch_ids, batch_count, pCfg, pRun, pPc, ledgerNonce,
           accountNonces, pB, writeIdx, preparedTransactions,
           signedTransactions, submitOps, oWriteTxHashes, receiptPromises,
           readOps, timers, fAccounts, fPc, balanceChecks, fundingOps,
           funderNonce, fundedCount, fFailedCount, dAccounts, dPc,
           deploymentChecks, deploymentOps, deployedCount, dFailedCount,
           failedAccountsFile, aScript, args, aAccounts, aPc, batchSizeArg,
           readRatioArg, aBatch, aWrites, aReads >>

fundVars == << fAccounts, fPc, balanceChecks, fundingOps, funderNonce,
               fundedCount, fFailedCount >>

deployVars == << dAccounts, dPc, deploymentChecks, deploymentOps,
                 deployedCount, dFailedCount, failedAccountsFile >>

argsVars == << aScript, args, aAccounts, aPc, batchSizeArg, readRatioArg,
               aBatch, aWrites, aReads >>

\* What runBatchTest leaves alone.
notRunVars ==
    << splitVars, contractVars, prepVars, fundVars, deployVars, argsVars >>

\* What the split leaves alone.
notSplitVars ==
    << runVars, contractVars, prepVars, fundVars, deployVars, argsVars >>

\* What the contract leaves alone.
notContractVars ==
    << splitVars, runVars, prepVars, fundVars, deployVars, argsVars >>

\* What the preparation of runOptimizedBatchTest leaves alone.
notPrepVars ==
    << splitVars, runVars, contractVars, fundVars, deployVars, argsVars >>

\* What fundAccountsMadara leaves alone.
notFundVars ==
    << splitVars, runVars, contractVars, prepVars, deployVars, argsVars >>

\* What the parsing of the command line leaves alone.
notArgsVars ==
    << splitVars, runVars, contractVars, prepVars, fundVars, deployVars >>

\* What deployAccountsMadara leaves alone.
notDeployVars ==
    << splitVars, runVars, contractVars, prepVars, fundVars, argsVars >>

Min(a, b) == IF a < b THEN a ELSE b

Max(a, b) == IF a < b THEN b ELSE a

NoRun == [n |-> 0, batchSize |-> 0, numReads |-> 0, numWrites |-> 0,
          opTypes |-> << >>]

\* The variables of runBatchTest while the split alone is looked at.
RunIdle ==
    /\ cfg = [variant |-> "none"]
    /\ mainPc = "idle"
    /\ cause = "none"
    /\ chk = [queued |-> 0, running |-> 0, passed |-> 0]
    /\ run = NoRun
    /\ ops = << >>
    /\ shared = [opIndex |-> 0, sentCount |-> 0, balOut |-> 0]
    /\ failedWrites = << >>
    /\ writeTxHashes = {}
    /\ chain = << >>
    /\ retry = [idx |-> 0, step |-> "none"]
    /\ nonces = << >>
    /\ rcpt = << >>
    /\ tally = [readsOk |-> 0, finOut |-> 0]
    /\ report = "none"
    /\ faults = 0

\* The variables of the split while runBatchTest is looked at.
SplitIdle ==
    /\ sBatch = 0
    /\ sRatio = 0
    /\ sFn = "none"
    /\ sWrites = -1
    /\ sReads = -1

NoCall == [fn |-> "none", caller |-> 0, result |-> "none", ret |-> -1]

\* The variables of the contract while the scripts are looked at.
ContractIdle ==
    /\ admin_address = 0
    /\ balances = << >>
    /\ addresses = << >>
    /\ address_count = 0
    /\ lastCall = NoCall
    /\ batch_infos = << >>
    /\ batch_ids = << >>
    /\ batch_count = 0

\* The variables of runOptimizedBatchTest while something else is looked at.
PrepIdle ==
    /\ pCfg = [accounts |-> 0]
    /\ pRun = [batchSize |-> 0]
    /\ pPc = "idle"
    /\ ledgerNonce = << >>
    /\ accountNonces = << >>
    /\ pB = 0
    /\ writeIdx = 0
    /\ preparedTransactions = << >>
    /\ signedTransactions = << >>
    /\ submitOps = << >>
    /\ oWriteTxHashes = << >>
    /\ receiptPromises = << >>
    /\ readOps = << >>
    /\ timers = {}

\* The variables of fundAccountsMadara while something else is looked at.
FundIdle ==
    /\ fAccounts = 0
    /\ fPc = "idle"
    /\ balanceChecks = << >>
    /\ fundingOps = << >>
    /\ funderNonce = 0
    /\ fundedCount = 0
    /\ fFailedCount = 0

\* The variables of deployAccountsMadara while something else is looked at.
DeployIdle ==
    /\ dAccounts = 0
    /\ dPc = "idle"
    /\ deploymentChecks = << >>
    /\ deploymentOps = << >>
    /\ deployedCount = 0
    /\ dFailedCount = 0
    /\ failedAccountsFile = FALSE

\* The variables of the command line while something else is looked at.
ArgsIdle ==
    /\ aScript = "none"
    /\ args = << >>
    /\ aAccounts = 0
    /\ aPc = "idle"
    /\ batchSizeArg = 0
    /\ readRatioArg = [k |-> 0, den |-> 1]
    /\ aBatch = -1
    /\ aWrites = -1
    /\ aReads = -1

(***************************************************************************)
(* runBatchTest: the parts that run between two suspension points, as      *)
(* operators on the record w of the variables they change.                 *)
(***************************************************************************)
Cur == [mainPc |-> mainPc, cause |-> cause, ops |-> ops, shared |-> shared,
        failedWrites |-> failedWrites, writeTxHashes |-> writeTxHashes,
        chain |-> chain, retry |-> retry, nonces |-> nonces, rcpt |-> rcpt,
        tally |-> tally, report |-> report, faults |-> faults]

Commit(w) ==
    /\ mainPc' = w.mainPc
    /\ cause' = w.cause
    /\ ops' = w.ops
    /\ shared' = w.shared
    /\ failedWrites' = w.failedWrites
    /\ writeTxHashes' = w.writeTxHashes
    /\ chain' = w.chain
    /\ retry' = w.retry
    /\ nonces' = w.nonces
    /\ rcpt' = w.rcpt
    /\ tally' = w.tally
    /\ report' = w.report
    /\ faults' = w.faults

NewOp == [pc |-> "queued", res |-> "none", type |-> "none", acc |-> -1,
          at |-> "none", calls |-> 0, submits |-> 0, retryCount |-> 0,
          lastErr |-> "none",
          nonce |-> -1, optNonce |-> NoNonce, lo |-> 0, len |-> 0,
          resent |-> [acc |-> -1, lo |-> -1, len |-> -1]]

\* maxRetries of the rwr submit loop
SubmitMaxRetries(variant) ==
    IF variant = "local" THEN LocalMaxRetries ELSE MadaraMaxRetries

\* numBundles = Math.ceil(numWrites / bundleSize)
NumBundlesOf(r) == (r.numWrites + cfg.bundleSize - 1) \div cfg.bundleSize

\* usedAccounts.length: the distinct testAccounts[b % n] for
\* b < Math.max(numBundles, numReads)
UsedAccountsOf(r) == Min(r.n, Max(NumBundlesOf(r), r.numReads))

UsedAccounts == UsedAccountsOf(run)

\* p-limit: the operations that hold a slot
ActiveOps(o) == {b \in DOMAIN o : o[b].pc \notin {"queued", "done"}}

QueuedOps(o) == {b \in DOMAIN o : o[b].pc = "queued"}

\* A limiter that starts one function more than `concurrency`.
SlotFreeInclusive(active, concurrency) == active <= concurrency

\* p-limit: a queued function is started when fewer than `concurrency` run
SlotFree(active, concurrency) == active < concurrency

\* const optimisticNonce = baseNonce + BigInt(counter)
OptimisticNonce(base, counter) == JsPlusBigInt(base, counter)

\* An assignment that gives every operation the first account.
FirstAccount(opIndex, n) == 0

\* testAccounts[opIndex % testAccounts.length]
RoundRobin(opIndex, n) == opIndex % n

\* The body of an operation from its start (after its delay, in the local
\* variant) to its first remote call.
Begin(w, b) ==
    IF cfg.mode = "blend"
    THEN LET type == run.opTypes[b + 1]
             acc  == RoundRobin(w.shared.opIndex, run.n)
             lo   == w.shared.sentCount * cfg.bundleSize
             sh   == [w.shared EXCEPT !.opIndex = @ + 1]
         IN  IF type = "read"
             THEN [w EXCEPT !.shared = sh,
                            !.ops[b] = [@ EXCEPT !.pc = "read", !.type = type,
                                                 !.acc = acc, !.calls = 1]]
             ELSE [w EXCEPT !.shared = sh,
                            !.ops[b] = [@ EXCEPT !.pc = "estimate",
                                !.type = type, !.acc = acc, !.lo = lo,
                                !.len = Max(0, Min(cfg.bundleSize,
                                                   run.numWrites - lo))]]
    ELSE LET acc == b % run.n
         IN  IF cfg.variant = "local"
             THEN [w EXCEPT !.ops[b] = [@ EXCEPT !.pc = "read", !.type = "rwr",
                                                 !.acc = acc, !.calls = 1]]
             ELSE LET opt == OptimisticNonce(w.nonces[acc].base,
                                             w.nonces[acc].counter)
                  IN  [w EXCEPT !.nonces[acc].counter = @ + 1,
                                !.ops[b] = [@ EXCEPT !.pc = "estimate",
                                    !.type = "rwr", !.acc = acc,
                                    !.optNonce = opt,
                                    !.nonce = ToBigInt(opt)]]

\* p-limit starts operation b: the local variant first sleeps a random delay.
Launch(w, b) ==
    IF cfg.variant = "local"
    THEN [w EXCEPT !.ops[b].pc = "delay"]
    ELSE Begin(w, b)

\* p-limit: start queued operations, in order, while a slot is free.
RECURSIVE LaunchAll(_)
LaunchAll(w) ==
    IF /\ QueuedOps(w.ops) # {}
       /\ SlotFree(Cardinality(ActiveOps(w.ops)), cfg.concurrency)
    THEN LaunchAll(Launch(w, CHOOSE b \in QueuedOps(w.ops) :
                                 \A c \in QueuedOps(w.ops) : b <= c))
    ELSE w

\* runBatchTest throws.
Fail(w, why) == [w EXCEPT !.mainPc = "failed", !.cause = why]

\* validReceipts = receipts.filter(r => r); it stays [] in blend mode, where
\* no receipt is asked for.
ValidReceipts(rc) == {i \in DOMAIN rc : rc[i] = "receipt"}

\* totalCostStrk: the actual_fee of every valid receipt, added up.
TotalCost(rc) == TxFee * Cardinality(ValidReceipts(rc))

\* submitEndTime = Date.now() is taken after the branch of the mode: the
\* confirmation waits that have been started by then.
WaitsAtSubmitEnd(rc) == Len(rc)

\* The final report, then the first remote call of the batch-info record.
Report(w) ==
    LET submitted == Cardinality(w.writeTxHashes)
        common == [tx |-> submitted, cost |-> TotalCost(w.rcpt),
                   waitsAtSubmitEnd |-> WaitsAtSubmitEnd(w.rcpt)]
    IN  [w EXCEPT
           !.mainPc = "info",
           !.report =
              IF cfg.variant = "local"
              THEN [reads |-> run.numReads, writes |-> run.numWrites,
                    tx |-> common.tx, cost |-> common.cost,
                    waitsAtSubmitEnd |-> common.waitsAtSubmitEnd]
              ELSE [reads |-> IF cfg.mode = "rwr" THEN 2 * submitted
                                                  ELSE run.numReads,
                    writes |-> submitted,
                    tx |-> common.tx, cost |-> common.cost,
                    waitsAtSubmitEnd |-> common.waitsAtSubmitEnd]]

\* rwr: the final balance reads, one per result, all at once.
StartFinal(w) ==
    LET results == IF cfg.variant = "local" THEN Cardinality(DOMAIN w.ops)
                   ELSE Cardinality({b \in DOMAIN w.ops : w.ops[b].res = "ok"})
    IN  IF results = 0 THEN Report(w)
        ELSE [w EXCEPT !.mainPc = "final", !.tally.finOut = results]

\* rwr: wait for every submitted transaction: all at once in the local
\* variant, behind confirmLimit in the Madara variant.
StartConfirm(w) ==
    LET k == Cardinality(w.writeTxHashes)
        first == IF cfg.variant = "local" THEN k ELSE Min(k, ConfirmLimit)
    IN  IF k = 0 THEN StartFinal(w)
        ELSE [w EXCEPT !.mainPc = "confirm",
                       !.rcpt = [i \in 1..k |->
                                   IF i <= first THEN "wait" ELSE "queued"]]

\* blend: afterBalances, one read per used account, all at once.
StartAfter(w) ==
    [w EXCEPT !.mainPc = "after", !.shared.balOut = UsedAccounts]

\* Promise.all(ops) has resolved.
PoolDone(w) ==
    IF cfg.mode = "blend"
    THEN IF w.failedWrites # << >>
         THEN [w EXCEPT !.mainPc = "retry",
                        !.retry = [idx |-> 1, step |-> "estimate"]]
         ELSE StartAfter(w)
    ELSE StartConfirm(w)

\* Operation b settles (its nonce and retry counter go out of scope): p-limit
\* starts the next one, and Promise.all(ops) rejects on the first rejection
\* or resolves after the last fulfilment.
Settle(w, b, res) ==
    LET w1 == LaunchAll([w EXCEPT
                  !.ops[b] = [@ EXCEPT !.pc = "done", !.res = res,
                                       !.at = w.ops[b].pc, !.nonce = -1,
                                       !.optNonce = NoNonce,
                                       !.retryCount = 0]])
    IN  IF w1.mainPc # "pool" THEN w1
        ELSE IF res = "rejected" THEN Fail(w1, "op")
        ELSE IF \A c \in DOMAIN w1.ops : w1.ops[c].pc = "done" THEN PoolDone(w1)
        ELSE w1

\* The pool of operations is built: ops.push(limit(...)) for every b.
StartPoolOf(w, r) ==
    LaunchAll([w EXCEPT !.mainPc = "pool",
                        !.ops = [b \in 0..(Len(r.opTypes) - 1) |-> NewOp]])

StartPool(w) == StartPoolOf(w, run)

(***************************************************************************)
(* runBatchTest: the eligibility checks.                                   *)
(***************************************************************************)
\* limit(...) over k tasks: the first `concurrency` start at once.
StartChecks(k) ==
    [queued |-> k - Min(k, cfg.concurrency), running |-> Min(k, cfg.concurrency),
     passed |-> 0]

\* One check resolves; p-limit starts the next queued one.
CheckDone(c, pass) ==
    [queued  |-> IF c.queued > 0 THEN c.queued - 1 ELSE 0,
     running |-> IF c.queued > 0 THEN c.running ELSE c.running - 1,
     passed  |-> IF pass THEN c.passed + 1 ELSE c.passed]

\* bal >= MIN_BALANCE ? acc : null
Sufficient(bal) == bal >= MIN_BALANCE

\* The check written as a comparison that no length satisfies.
NoneEligibleNegative(k) == k < 0

\* if (sufficientAccounts.length === 0) throw ...
NoneEligible(k) == k = 0

\* The adjustment of batchSize left out.
RequestedBatch(variant, k, batchSize) == batchSize

\* The adjustment of batchSize made in the Madara variant instead.
MadaraBatch(variant, k, batchSize) ==
    IF variant = "madara" /\ k < batchSize THEN k ELSE batchSize

\* if (sufficientAccounts.length < batchSize) batchSize = ...length
\* (local variant only; the Madara variant reuses the accounts)
EffectiveBatch(variant, k, batchSize) ==
    IF variant = "local" /\ k < batchSize THEN k ELSE batchSize

\* opTypes after the shuffle: any order of numReads reads and numWrites writes
Shuffles(nr, nw) ==
    {t \in [1..(nr + nw) -> {"read", "write"}] :
        Cardinality({i \in 1..(nr + nw) : t[i] = "read"}) = nr}

\* What runBatchTest works with once k accounts are eligible.
Runs(k) ==
    LET bs == EffectiveBatch(cfg.variant, k, cfg.batchSize)
    IN  IF cfg.mode = "blend"
        THEN LET nw == NumWritesOf(bs, cfg.readRatio, RunRatioDen)
                 nr == bs - nw
             IN  {[n |-> k, batchSize |-> bs, numReads |-> nr, numWrites |-> nw,
                   opTypes |-> t] : t \in Shuffles(nr, nw)}
        ELSE {[n |-> k, batchSize |-> bs, numReads |-> 2 * bs, numWrites |-> bs,
               opTypes |-> [i \in 1..bs |-> "rwr"]]}

\* After the checks: the first remote calls of the chosen mode.
Enter(w, r) ==
    IF cfg.mode = "blend"
    THEN [w EXCEPT !.mainPc = "before", !.shared.balOut = UsedAccountsOf(r)]
    ELSE IF cfg.variant = "local" THEN StartPoolOf(w, r)
    ELSE [w EXCEPT !.mainPc = "prefetch",
                   !.nonces = [a \in 0..(r.n - 1) |->
                                 [pc |-> "both", base |-> NoNonce,
                                  counter |-> 0]]]

Configs ==
    [variant : {"local", "madara"}, mode : {"blend"},
     accounts : 1..MaxAccounts, batchSize : 1..MaxBatch,
     bundleSize : 1..MaxBundle, readRatio : 0..RunRatioDen,
     concurrency : 1..MaxConc]
    \cup
    \* rwr: "BundleSize and readRatio ignored"
    [variant : {"local", "madara"}, mode : {"rwr"},
     accounts : 1..MaxAccounts, batchSize : 1..MaxBatch,
     bundleSize : {1}, readRatio : {0},
     concurrency : 1..MaxConc]

Init ==
    /\ SplitIdle
    /\ ContractIdle
    /\ PrepIdle
    /\ cfg \in Configs
    /\ mainPc = IF cfg.variant = "madara" THEN "deployed" ELSE "balance"
    /\ cause = "none"
    /\ chk = StartChecks(cfg.accounts)
    /\ run = NoRun
    /\ ops = << >>
    /\ shared = [opIndex |-> 0, sentCount |-> 0, balOut |-> 0]
    /\ failedWrites = << >>
    /\ writeTxHashes = {}
    /\ chain = [a \in 0..(MaxAccounts - 1) |-> 0]
    /\ retry = [idx |-> 0, step |-> "none"]
    /\ nonces = << >>
    /\ rcpt = << >>
    /\ tally = [readsOk |-> 0, finOut |-> 0]
    /\ report = "none"
    /\ faults = 0
    /\ FundIdle
    /\ DeployIdle
    /\ ArgsIdle

\* Madara variant: checkAccountExists(acc.address, ...) resolves.
DeployedResp ==
    /\ mainPc = "deployed"
    /\ chk.running > 0
    /\ \E out \in {"ok", "notFound", "other"} :
         LET c == CheckDone(chk, out # "notFound")
         IN  IF c.running > 0
             THEN /\ chk' = c
                  /\ UNCHANGED << mainPc, cause >>
             ELSE IF NoneEligible(c.passed)
             THEN /\ chk' = c
                  /\ mainPc' = "failed"
                  /\ cause' = "noDeployed"
             ELSE /\ chk' = StartChecks(c.passed)
                  /\ mainPc' = "balance"
                  /\ UNCHANGED cause
    /\ UNCHANGED << cfg, run, ops, shared, failedWrites, writeTxHashes, chain,
                    retry, nonces, rcpt, tally, report, faults >>
    /\ UNCHANGED notRunVars

\* getStrkBalance(acc.address, i) of the sufficient-balance check resolves
\* with a balance, or rejects.
SufficientResp ==
    /\ mainPc = "balance"
    /\ chk.running > 0
    /\ \E out \in (0..MaxBalance) \cup {-1} :
         IF out = -1
         THEN /\ Commit(Fail(Cur, "balanceRead"))
              /\ chk' = CheckDone(chk, FALSE)
              /\ UNCHANGED run
         ELSE LET c == CheckDone(chk, Sufficient(out))
              IN  /\ chk' = c
                  /\ IF c.running > 0
                     THEN UNCHANGED << run, mainPc, cause, ops, shared,
                              failedWrites, writeTxHashes, chain, retry, nonces,
                              rcpt, tally, report, faults >>
                     ELSE IF NoneEligible(c.passed)
                     THEN /\ Commit(Fail(Cur, "noAccounts"))
                          /\ UNCHANGED run
                     ELSE \E r \in Runs(c.passed) :
                              /\ run' = r
                              /\ Commit(Enter(Cur, r))
    /\ UNCHANGED cfg
    /\ UNCHANGED notRunVars

(***************************************************************************)
(* runBatchTest: the operations of the pool.  Every action is one response *)
(* of the ledger (or one timer) and the code that runs on it up to the     *)
(* next remote call.                                                       *)
(***************************************************************************)
\* The errors a remote call of an operation may end with: any of S, until
\* MaxFaults calls have failed in this run.
Errors(S) == IF faults < MaxFaults THEN S ELSE {}

\* One more remote call of an operation has failed.
Fault(w) == [w EXCEPT !.faults = @ + 1]

\* The ledger accepts a submission that carries the account's next nonce
\* (nonce -1: account.execute fetches the nonce itself).
Accepts(ch, acc, nonce) == nonce = -1 \/ nonce = ch[acc]

\* retryWithBackoff retrying while attempt < maxRetries.
ReadRetriesOneMore(err, calls) == err = "rate" /\ calls - 1 < ReadMaxRetries

\* retryWithBackoff: if (isRateLimit && attempt < maxRetries - 1), with
\* attempt = calls - 1
ReadRetries(err, calls) == err = "rate" /\ calls - 1 < ReadMaxRetries - 1

\* rwr submit loop, local variant:
\* err includes 'Rate limit reached' && retryCount < maxRetries - 1
LocalSubmitRetries(err, retryCount) ==
    err = "rate" /\ retryCount < LocalMaxRetries - 1

\* rwr submit loop, Madara variant:
\* (isNonceError || isRateLimit || isServerError) && retryCount < maxRetries - 1
MadaraSubmitRetries(err, retryCount) ==
    err \in {"nonce", "rate", "server"} /\ retryCount < MadaraMaxRetries - 1

\* The inner catch putting every error but a rate limit on the retry list.
BlendWriteCatchRequeuesAll(err) == IF err = "rate" THEN "throw" ELSE "requeue"

\* blend write: what the inner catch does with a failed getNonce or execute
BlendWriteCatch(err) ==
    IF err = "nonce" THEN "requeue"
    ELSE IF err = "rate" THEN "throw"
    ELSE "skip"

\* currentNonce = freshNonce > optimisticNonce ? freshNonce
\*                                             : optimisticNonce + retryCount
RefreshedNonce(fresh, optimistic, retryCount) ==
    IF JsGreater(fresh, optimistic) THEN fresh
    ELSE JsPlusBigInt(optimistic, retryCount)

\* The operations of the pool run while Promise.all(ops) is awaited, and go
\* on after it has rejected: the rejection of runBatchTest is only logged
\* (.catch(console.error)) and the process lives while calls are pending.
PoolRunning == mainPc = "pool" \/ (mainPc = "failed" /\ cause = "op")

\* local variant: the random delay at the head of an operation is over.
DelayElapsed(b) ==
    /\ PoolRunning
    /\ ops[b].pc = "delay"
    /\ Commit(Begin(Cur, b))
    /\ UNCHANGED << cfg, chk, run >>
    /\ UNCHANGED notRunVars

\* contractLocal.call('get_balance', ...) of operation b resolves or rejects.
ReadResp(b) ==
    /\ PoolRunning
    /\ ops[b].pc = "read"
    /\ \E out \in {"ok"} \cup Errors({"rate", "other"}) :
         LET w == Cur
         IN  IF out = "ok"
             THEN LET w1 == [w EXCEPT !.tally.readsOk = @ + 1,
                                      !.ops[b].lastErr = "none"]
                  IN  IF cfg.mode = "blend"
                      THEN Commit(Settle(w1, b, "ok"))
                      ELSE Commit([w1 EXCEPT !.ops[b].pc = "estimate"])
             ELSE LET w1 == Fault([w EXCEPT !.ops[b].lastErr = out])
                  IN  IF cfg.mode = "blend" /\ ReadRetries(out, ops[b].calls)
                      THEN Commit([w1 EXCEPT !.ops[b].calls = @ + 1])
                      ELSE Commit(Settle(w1, b, "rejected"))
    /\ UNCHANGED << cfg, chk, run >>
    /\ UNCHANGED notRunVars

\* account.estimateInvokeFee(bundleCalls) of operation b resolves or rejects.
EstimateResp(b) ==
    /\ PoolRunning
    /\ ops[b].pc = "estimate"
    /\ \E out \in {"ok"} \cup Errors({"other"}) :
         LET w == Cur
         IN  IF out = "ok"
             THEN IF cfg.mode = "blend"
                  THEN Commit([w EXCEPT !.ops[b].pc = "getNonce"])
                  ELSE Commit([w EXCEPT !.ops[b].pc = "execute",
                                        !.ops[b].submits = 1])
             ELSE IF cfg.mode = "rwr" /\ cfg.variant = "madara"
                  THEN Commit(Settle(Fault(w), b, "null"))
                  ELSE Commit(Settle(Fault(w), b, "rejected"))
    /\ UNCHANGED << cfg, chk, run >>
    /\ UNCHANGED notRunVars

\* blend: account.getNonce('pending') of write b resolves or rejects.
NonceResp(b) ==
    /\ PoolRunning
    /\ ops[b].pc = "getNonce"
    /\ \E out \in {"ok"} \cup Errors({"rate", "other"}) :
         LET w == Cur
         IN  IF out = "ok"
             THEN Commit([w EXCEPT !.ops[b].pc = "execute",
                                   !.ops[b].nonce = chain[ops[b].acc],
                                   !.ops[b].submits = 1])
             ELSE LET w1 == Fault([w EXCEPT !.ops[b].lastErr = out])
                  IN  IF BlendWriteCatch(out) = "throw"
                      THEN Commit(Settle(w1, b, "rejected"))
                      ELSE Commit(Settle(w1, b, "null"))
    /\ UNCHANGED << cfg, chk, run >>
    /\ UNCHANGED notRunVars

\* account.execute(bundleCalls, ...) of operation b is accepted.
ExecuteOk(b) ==
    /\ PoolRunning
    /\ ops[b].pc = "execute"
    /\ Accepts(chain, ops[b].acc, ops[b].nonce)
    /\ LET w  == Cur
           w1 == [w EXCEPT !.chain[ops[b].acc] = @ + 1,
                           !.ops[b].lastErr = "none",
                           !.writeTxHashes = @ \cup {b},
                           !.shared.sentCount =
                               IF cfg.mode = "blend" THEN @ + 1 ELSE @]
       IN  Commit(Settle(w1, b, "ok"))
    /\ UNCHANGED << cfg, chk, run >>
    /\ UNCHANGED notRunVars

\* account.execute(bundleCalls, ...) of operation b rejects.
ExecuteErr(b) ==
    /\ PoolRunning
    /\ ops[b].pc = "execute"
    /\ \E out \in Errors({"nonce", "rate", "other"}
                         \cup (IF cfg.mode = "rwr" /\ cfg.variant = "madara"
                               THEN {"server"} ELSE {})) :
         LET w == Fault([Cur EXCEPT !.ops[b].lastErr = out])
         IN  IF cfg.mode = "blend"
             THEN IF BlendWriteCatch(out) = "requeue"
                  THEN Commit(Settle([w EXCEPT !.failedWrites = Append(@, b)],
                                     b, "null"))
                  ELSE IF BlendWriteCatch(out) = "throw"
                  THEN Commit(Settle(w, b, "rejected"))
                  ELSE Commit(Settle(w, b, "null"))
             ELSE IF cfg.variant = "local"
             THEN IF LocalSubmitRetries(out, ops[b].retryCount)
                  THEN Commit([w EXCEPT !.ops[b].retryCount = @ + 1,
                                        !.ops[b].submits = @ + 1])
                  ELSE Commit(Settle(w, b, "rejected"))
             ELSE IF MadaraSubmitRetries(out, ops[b].retryCount)
                  THEN IF out = "rate"
                       THEN Commit([w EXCEPT !.ops[b].retryCount = @ + 1,
                                             !.ops[b].submits = @ + 1])
                       ELSE Commit([w EXCEPT !.ops[b].retryCount = @ + 1,
                                             !.ops[b].pc = "refresh"])
                  ELSE Commit(Settle(w, b, "null"))
    /\ UNCHANGED << cfg, chk, run >>
    /\ UNCHANGED notRunVars

\* Madara rwr: account.getNonce('pending') of a retry resolves or rejects,
\* and the transaction is submitted again.
RefreshResp(b) ==
    /\ PoolRunning
    /\ ops[b].pc = "refresh"
    /\ \E ok \in {TRUE} \cup Errors({FALSE}) :
         Commit([(IF ok THEN Cur ELSE Fault(Cur)) EXCEPT
                   !.ops[b].pc = "execute",
                   !.ops[b].submits = @ + 1,
                   !.ops[b].nonce =
                       ToBigInt(IF ok
                                THEN RefreshedNonce(JsString(chain[ops[b].acc]),
                                         ops[b].optNonce, ops[b].retryCount)
                                ELSE JsPlusBigInt(ops[b].optNonce,
                                                  ops[b].retryCount))])
    /\ UNCHANGED << cfg, chk, run >>
    /\ UNCHANGED notRunVars

(***************************************************************************)
(* runBatchTest: what runs outside the pool.                               *)
(***************************************************************************)
\* blend: the getStrkBalance calls of beforeBalances or afterBalances, issued
\* together with nothing else in flight, all resolve, or one of them rejects
\* and with it Promise.all and runBatchTest.
BalanceResp ==
    /\ mainPc \in {"before", "after"}
    /\ shared.balOut > 0
    /\ \E ok \in BOOLEAN :
         LET w == [Cur EXCEPT !.shared.balOut = 0]
         IN  IF ~ok THEN Commit(Fail(w, "balances"))
             ELSE IF mainPc = "before" THEN Commit(StartPool(w))
             ELSE Commit(Report(w))
    /\ UNCHANGED << cfg, chk, run >>
    /\ UNCHANGED notRunVars

\* The retry pass building the bundle of a requeued write anew, from the
\* sentCount of the moment.
RetryPayloadRebuilt(w, b) ==
    [acc |-> w.ops[b].acc, lo |-> w.shared.sentCount * cfg.bundleSize,
     len |-> Max(0, Min(cfg.bundleSize,
                        run.numWrites - w.shared.sentCount * cfg.bundleSize))]

\* for (const { account, bundleCalls, provIdx } of failedWrites): the account
\* and the bundle that the write pushed on the list.
RetryPayload(w, b) ==
    [acc |-> w.ops[b].acc, lo |-> w.ops[b].lo, len |-> w.ops[b].len]

\* The retry pass moves to the next entry of failedWrites, or ends.
RetryNext(w) ==
    IF w.retry.idx < Len(w.failedWrites)
    THEN [w EXCEPT !.retry = [idx |-> @.idx + 1, step |-> "estimate"]]
    ELSE StartAfter([w EXCEPT !.retry.step = "none"])

\* blend, retry pass: the remote call of the current entry resolves or
\* rejects (estimateInvokeFee, getNonce('pending'), execute, in this order);
\* the catch treats every error alike.
RetryResp ==
    /\ mainPc = "retry"
    /\ LET b == failedWrites[retry.idx]
           w == Cur
       IN  \/ /\ retry.step = "estimate"
              /\ Commit([w EXCEPT !.retry.step = "getNonce"])
           \/ /\ retry.step = "getNonce"
              /\ Commit([w EXCEPT !.retry.step = "execute",
                                  !.ops[b].nonce = chain[ops[b].acc],
                                  !.ops[b].submits = @ + 1,
                                  !.ops[b].resent = RetryPayload(w, b)])
           \/ /\ retry.step = "execute"
              /\ Accepts(chain, ops[b].acc, ops[b].nonce)
              /\ Commit(RetryNext([w EXCEPT
                                     !.chain[ops[b].acc] = @ + 1,
                                     !.writeTxHashes = @ \cup {b},
                                     !.ops[b].lastErr = "none",
                                     !.ops[b].res = "retried"]))
           \/ \E out \in Errors({"any"}) :
                 Commit(RetryNext(Fault([w EXCEPT !.ops[b].lastErr = out])))
    /\ UNCHANGED << cfg, chk, run >>
    /\ UNCHANGED notRunVars

\* Madara rwr: one call of the pre-fetch of account a (get_balance or
\* getNonce('latest')) resolves or rejects.
PrefetchResp(a) ==
    /\ mainPc = "prefetch"
    /\ nonces[a].pc \in {"both", "one"}
    /\ \E ok \in BOOLEAN :
         LET nn == IF ~ok THEN [nonces EXCEPT ![a].pc = "done",
                                              ![a].base = JsBigInt(0)]
                   ELSE IF nonces[a].pc = "both"
                   THEN [nonces EXCEPT ![a].pc = "one"]
                   ELSE [nonces EXCEPT ![a].pc = "done",
                                       ![a].base = JsString(chain[a])]
               w == [Cur EXCEPT !.nonces = nn]
         IN  IF \A c \in DOMAIN nn : nn[c].pc = "done"
             THEN Commit(StartPool(w))
             ELSE Commit(w)
    /\ UNCHANGED << cfg, chk, run >>
    /\ UNCHANGED notRunVars

\* A confirmation wait that sends the transaction once more.
ReceiptOutcomeResubmits(w, i, ok) ==
    [w EXCEPT !.rcpt[i] = IF ok THEN "receipt" ELSE "null",
              !.writeTxHashes = @ \cup {-i}]

\* The callback of receiptPromises for the i-th hash: return receipt, or
\* return null from the catch.
ReceiptOutcome(w, i, ok) ==
    [w EXCEPT !.rcpt[i] = IF ok THEN "receipt" ELSE "null"]

\* rwr: prov.waitForTransaction(hash) of the i-th submitted transaction
\* resolves with a receipt or rejects.
ReceiptResp(i) ==
    /\ mainPc = "confirm"
    /\ rcpt[i] = "wait"
    /\ \E ok \in BOOLEAN :
         LET w0 == ReceiptOutcome(Cur, i, ok)
             r1 == w0.rcpt
             q  == {j \in DOMAIN r1 : r1[j] = "queued"}
             r2 == IF q = {} THEN r1
                   ELSE [r1 EXCEPT ![CHOOSE j \in q : \A k \in q : j <= k] = "wait"]
             w  == [w0 EXCEPT !.rcpt = r2]
         IN  IF \A j \in DOMAIN r2 : r2[j] \in {"receipt", "null"}
             THEN Commit(StartFinal(w))
             ELSE Commit(w)
    /\ UNCHANGED << cfg, chk, run >>
    /\ UNCHANGED notRunVars

\* rwr: a final get_balance read resolves or rejects.
FinalResp ==
    /\ mainPc = "final"
    /\ tally.finOut > 0
    /\ \E ok \in BOOLEAN :
         LET w == [Cur EXCEPT !.tally.finOut = @ - 1,
                              !.tally.readsOk = IF ok THEN @ + 1 ELSE @]
         IN  IF w.tally.finOut > 0 THEN Commit(w) ELSE Commit(Report(w))
    /\ UNCHANGED << cfg, chk, run >>
    /\ UNCHANGED notRunVars

\* The batch-info record: estimateInvokeFee, execute and waitForTransaction
\* run in sequence with nothing else in flight; they all resolve, or one of
\* them rejects and with it runBatchTest.
InfoResp ==
    /\ mainPc = "info"
    /\ \E ok \in BOOLEAN :
         IF ~ok THEN Commit(Fail(Cur, "batchInfo"))
         ELSE Commit([Cur EXCEPT !.mainPc = "done"])
    /\ UNCHANGED << cfg, chk, run >>
    /\ UNCHANGED notRunVars

Next ==
    \/ DeployedResp
    \/ SufficientResp
    \/ BalanceResp
    \/ \E a \in DOMAIN nonces : PrefetchResp(a)
    \/ \E b \in DOMAIN ops : DelayElapsed(b)
    \/ \E b \in DOMAIN ops : ReadResp(b)
    \/ \E b \in DOMAIN ops : EstimateResp(b)
    \/ \E b \in DOMAIN ops : NonceResp(b)
    \/ \E b \in DOMAIN ops : ExecuteOk(b)
    \/ \E b \in DOMAIN ops : ExecuteErr(b)
    \/ \E b \in DOMAIN ops : RefreshResp(b)
    \/ RetryResp
    \/ \E i \in DOMAIN rcpt : ReceiptResp(i)
    \/ FinalResp
    \/ InfoResp

Spec == Init /\ [][Next]_vars

(***************************************************************************)
(* The rwr mode of the Madara variant on accounts that have transacted     *)
(* before: the ledger holds any nonce up to MaxBaseNonce for each of them. *)
(***************************************************************************)
RwrInit ==
    /\ SplitIdle
    /\ ContractIdle
    /\ PrepIdle
    /\ cfg \in {c \in Configs : c.variant = "madara" /\ c.mode = "rwr"}
    /\ mainPc = "deployed"
    /\ cause = "none"
    /\ chk = StartChecks(cfg.accounts)
    /\ run = NoRun
    /\ ops = << >>
    /\ shared = [opIndex |-> 0, sentCount |-> 0, balOut |-> 0]
    /\ failedWrites = << >>
    /\ writeTxHashes = {}
    /\ chain \in [0..(MaxAccounts - 1) -> 0..MaxBaseNonce]
    /\ retry = [idx |-> 0, step |-> "none"]
    /\ nonces = << >>
    /\ rcpt = << >>
    /\ tally = [readsOk |-> 0, finOut |-> 0]
    /\ report = "none"
    /\ faults = 0
    /\ FundIdle
    /\ DeployIdle
    /\ ArgsIdle

RwrNext ==
    \/ DeployedResp
    \/ SufficientResp
    \/ \E a \in DOMAIN nonces : PrefetchResp(a)
    \/ \E b \in DOMAIN ops : EstimateResp(b)
    \/ \E b \in DOMAIN ops : ExecuteOk(b)
    \/ \E b \in DOMAIN ops : ExecuteErr(b)
    \/ \E b \in DOMAIN ops : RefreshResp(b)
    \/ \E i \in DOMAIN rcpt : ReceiptResp(i)
    \/ FinalResp
    \/ InfoResp

SpecRwr == RwrInit /\ [][RwrNext]_vars

(***************************************************************************)
(* The read/write split of blend mode, as a specification of its own.      *)
(***************************************************************************)
SplitInit ==
    /\ sBatch \in 1..MaxSplitBatch
    /\ sRatio \in 0..RatioDen
    /\ sFn \in {"runBatchTest", "runOptimizedBatchTest"}
    /\ sWrites = -1
    /\ sReads = -1
    /\ RunIdle
    /\ ContractIdle
    /\ PrepIdle
    /\ FundIdle
    /\ DeployIdle
    /\ ArgsIdle

\* runBatchTest, blend: numWrites and numReads.
SplitRunBatchTest ==
    /\ sFn = "runBatchTest"
    /\ sWrites = -1
    /\ sWrites' = NumWritesOf(sBatch, sRatio, RatioDen)
    /\ sReads' = NumReadsOf(sBatch, sRatio, RatioDen)
    /\ UNCHANGED << sBatch, sRatio, sFn >>
    /\ UNCHANGED notSplitVars

\* runOptimizedBatchTest, blend: numWrites and numReads.
SplitRunOptimizedBatchTest ==
    /\ sFn = "runOptimizedBatchTest"
    /\ sWrites = -1
    /\ sWrites' = NumWritesOf(sBatch, sRatio, RatioDen)
    /\ sReads' = NumReadsOf(sBatch, sRatio, RatioDen)
    /\ UNCHANGED << sBatch, sRatio, sFn >>
    /\ UNCHANGED notSplitVars

SplitNext == SplitRunBatchTest \/ SplitRunOptimizedBatchTest

SpecSplit == SplitInit /\ [][SplitNext]_vars

(***************************************************************************)
(* The performanceTest contract.  A call that panics is reverted by the     *)
(* ledger: it leaves the storage as it was.                                *)
(***************************************************************************)
Addr == 1..MaxAddr

Values == 0..MaxValue

\* Array<(ContractAddress, u256)> of at most MaxUpdates pairs
UpdateSeqs == UNION {[1..n -> Addr \X Values] : n \in 0..MaxUpdates}

Storage == [balances |-> balances, addresses |-> addresses,
            address_count |-> address_count]

Store(st) ==
    /\ balances' = st.balances
    /\ addresses' = st.addresses
    /\ address_count' = st.address_count

\* A write that never touches the tracked list.
WriteBalanceUntracked(st, addr, bal) == [st EXCEPT !.balances[addr] = bal]

\* The body shared by update_balance and the loop of batch_update: the
\* address is appended to the tracked list when its old balance is 0, then
\* the balance is written.
WriteBalance(st, addr, bal) ==
    LET tracked == IF st.balances[addr] = 0
                   THEN [st EXCEPT !.addresses[st.address_count] = addr,
                                   !.address_count = @ + 1]
                   ELSE st
    IN  [tracked EXCEPT !.balances[addr] = bal]

\* The loop of batch_update from index i on.
RECURSIVE BatchLoop(_, _, _)
BatchLoop(st, updates, i) ==
    IF i >= Len(updates) THEN st
    ELSE BatchLoop(WriteBalance(st, updates[i + 1][1], updates[i + 1][2]),
                   updates, i + 1)

\* get_all_balances(): the pairs (address, balance) of the tracked list.
get_all_balances ==
    [i \in 1..address_count |->
        << addresses[i - 1], balances[addresses[i - 1]] >>]

\* The calls looked at: those that leave at most MaxTracked entries on the
\* tracked list.
Fits(st) == st.address_count <= MaxTracked

\* The admin check letting every caller through.
OnlyAdminAnyone(caller, admin) == TRUE

\* assert(caller == admin, 'Only admin can batch update')
OnlyAdmin(caller, admin) == caller = admin

\* felt252 batch_id
BatchIds == 0..MaxBatchId

\* BatchInfo, by its batch_id and num_items.
BatchInfos == [batch_id : BatchIds, num_items : 0..MaxItems]

\* What batch_infos.read returns for a key never written: the zero struct.
NoBatchInfo == [batch_id |-> 0, num_items |-> 0]

\* constructor(admin_address), on empty storage.
ContractInit ==
    /\ admin_address \in Addr
    /\ balances = [a \in Addr |-> 0]
    /\ addresses = [i \in 0..(MaxTracked + MaxUpdates) |-> 0]
    /\ address_count = 0
    /\ lastCall = NoCall
    /\ batch_infos = [id \in BatchIds |-> NoBatchInfo]
    /\ batch_ids = [i \in 0..MaxBatches |-> 0]
    /\ batch_count = 0
    /\ SplitIdle
    /\ RunIdle
    /\ PrepIdle
    /\ FundIdle
    /\ DeployIdle
    /\ ArgsIdle

update_balance(caller, new_balance) ==
    /\ Fits(WriteBalance(Storage, caller, new_balance))
    /\ Store(WriteBalance(Storage, caller, new_balance))
    /\ lastCall' = [fn |-> "update_balance", caller |-> caller,
                    result |-> "ok", ret |-> -1]
    /\ UNCHANGED << admin_address, batch_infos, batch_ids, batch_count >>
    /\ UNCHANGED notContractVars

update_and_get(caller, new_balance) ==
    /\ LET st == WriteBalance(Storage, caller, new_balance)
       IN  /\ Fits(st)
           /\ Store(st)
           /\ lastCall' = [fn |-> "update_and_get", caller |-> caller,
                           result |-> "ok", ret |-> st.balances[caller]]
    /\ UNCHANGED << admin_address, batch_infos, batch_ids, batch_count >>
    /\ UNCHANGED notContractVars

\* The assert comes before the first use of `updates`: a call that fails on
\* it is the same call whatever the array holds.
batch_update(caller) ==
    /\ IF OnlyAdmin(caller, admin_address)
       THEN \E updates \in UpdateSeqs :
              /\ Fits(BatchLoop(Storage, updates, 0))
              /\ Store(BatchLoop(Storage, updates, 0))
              /\ lastCall' = [fn |-> "batch_update", caller |-> caller,
                              result |-> "ok", ret |-> -1]
       ELSE /\ Store(Storage)
            /\ lastCall' = [fn |-> "batch_update", caller |-> caller,
                            result |-> "Only admin can batch update",
                            ret |-> -1]
    /\ UNCHANGED << admin_address, batch_infos, batch_ids, batch_count >>
    /\ UNCHANGED notContractVars

ContractNext ==
    \/ \E caller \in Addr, v \in Values : update_balance(caller, v)
    \/ \E caller \in Addr, v \in Values : update_and_get(caller, v)
    \/ \E caller \in Addr : batch_update(caller)

SpecContract == ContractInit /\ [][ContractNext]_vars

(***************************************************************************)
(* The batch records of the contract.  set_batch_info reads and writes      *)
(* batch_infos, batch_ids and batch_count only, and no other entry point    *)
(* writes them, so its calls are looked at on their own.                    *)
(***************************************************************************)
\* if existing.batch_id == 0: "Assuming 0 means not set"
NotSet(existing) == existing.batch_id = 0

set_batch_info(info) ==
    /\ LET existing == batch_infos[info.batch_id]
       IN  IF NotSet(existing)
           THEN /\ batch_count < MaxBatches
                /\ batch_ids' = [batch_ids EXCEPT ![batch_count] = info.batch_id]
                /\ batch_count' = batch_count + 1
           ELSE UNCHANGED << batch_ids, batch_count >>
    /\ batch_infos' = [batch_infos EXCEPT ![info.batch_id] = info]
    /\ lastCall' = [fn |-> "set_batch_info", caller |-> 0, result |-> "ok",
                    ret |-> -1]
    /\ UNCHANGED << admin_address, balances, addresses, address_count >>
    /\ UNCHANGED notContractVars

\* get_all_batch_infos(): the records of the batch-id list.
get_all_batch_infos ==
    [i \in 1..batch_count |-> batch_infos[batch_ids[i - 1]]]

BatchNext == \E info \in BatchInfos : set_batch_info(info)

SpecBatch == ContractInit /\ [][BatchNext]_vars

(***************************************************************************)
(* runOptimizedBatchTest, blend mode: the nonce pre-fetch and the           *)
(* preparation of the write transactions.                                  *)
(***************************************************************************)
\* batchSize after its adjustment, the split, numBundles and
\* usedAccounts.length for k accounts with a sufficient balance.
NumBundlesFloor(numWrites, bundleSize) == numWrites \div bundleSize

\* const numBundles = Math.ceil(numWrites / bundleSize)
NumBundles(numWrites, bundleSize) ==
    (numWrites + bundleSize - 1) \div bundleSize

\* The inner loop for (let j = 0; j < bundleSize; j++): the new_balance
\* values of the calls pushed, idx + 1 for idx = writeIdx, writeIdx + 1, ...
RECURSIVE BundleCalls(_, _, _, _, _)
BundleCalls(calls, idx, j, bundleSize, numWrites) ==
    IF j >= bundleSize \/ idx >= numWrites THEN calls
    ELSE BundleCalls(Append(calls, idx + 1), idx + 1, j + 1, bundleSize,
                     numWrites)

PrepRunOf(c) ==
    LET bs == EffectiveBatch("local", c.accounts, c.batchSize)
        nw == NumWritesOf(bs, c.readRatio, PrepRatioDen)
        nb == NumBundles(nw, c.bundleSize)
    IN  [batchSize |-> bs, numWrites |-> nw, numReads |-> bs - nw,
         numBundles |-> nb, used |-> Min(c.accounts, Max(nb, bs - nw))]

PrepInit ==
    /\ pCfg \in [accounts : 1..MaxPrepAccounts, batchSize : 1..MaxPrepBatch,
                  bundleSize : 1..MaxBundle, readRatio : 0..PrepRatioDen,
                  concurrency : 1..MaxConc]
    /\ pRun = PrepRunOf(pCfg)
    /\ pPc = "nonces"
    /\ ledgerNonce \in [0..(pCfg.accounts - 1) -> 0..MaxBaseNonce]
    /\ accountNonces = << >>
    /\ pB = 0
    /\ writeIdx = 0
    /\ preparedTransactions = << >>
    /\ signedTransactions = << >>
    /\ submitOps = << >>
    /\ oWriteTxHashes = << >>
    /\ receiptPromises = << >>
    /\ readOps = << >>
    /\ timers = {}
    /\ SplitIdle
    /\ RunIdle
    /\ ContractIdle
    /\ FundIdle
    /\ DeployIdle
    /\ ArgsIdle

\* The states of a promise that has not settled: waiting for its limiter,
\* or for the named remote call or timer.
Pending == {"queued", "estimate", "execute", "wait", "call", "delay",
            "getNonce", "balance", "check", "fund", "deploy", "verify"}

\* pLimit(concurrency): the functions that hold a slot.
RunningJobs(jobs) == {i \in DOMAIN jobs : jobs[i].st \in Pending \ {"queued"}}

QueuedJobs(jobs) == {i \in DOMAIN jobs : jobs[i].st = "queued"}

\* pLimit(concurrency): start queued functions, in order, while a slot is
\* free; a started function runs to its first await, the remote call `st`.
RECURSIVE StartJobs(_, _, _)
StartJobs(jobs, concurrency, st) ==
    IF /\ QueuedJobs(jobs) # {}
       /\ SlotFree(Cardinality(RunningJobs(jobs)), concurrency)
    THEN LET i == CHOOSE q \in QueuedJobs(jobs) :
                      \A c \in QueuedJobs(jobs) : q <= c
         IN  StartJobs([jobs EXCEPT ![i].st = st], concurrency, st)
    ELSE jobs

\* A continuation that runs as soon as one promise has settled.
FirstResolved(jobs) ==
    jobs = << >> \/ \E i \in DOMAIN jobs : jobs[i].st \notin Pending

\* await Promise.all(jobs) of promises that never reject: every one has
\* settled.
AllResolved(jobs) == \A i \in DOMAIN jobs : jobs[i].st \notin Pending

\* for (const prepTx of preparedTransactions) signedTransactions.push(
\* signLimit(...)).
SignJobs(n, concurrency) ==
    StartJobs([i \in 1..n |-> [st |-> "queued"]], concurrency, "estimate")

\* nonce: accountNonces.get(acc.address) + b
PreparedNonce(an, acc, b) == an[acc] + b

\* await Promise.all(nonceOps) resolves and accountNonces is filled, or one
\* getNonce('latest') rejects and with it runOptimizedBatchTest.
NoncesFetched ==
    /\ pPc = "nonces"
    /\ \E ok \in BOOLEAN :
         IF ok
         THEN /\ accountNonces' = [a \in 0..(pRun.used - 1) |-> ledgerNonce[a]]
              /\ pPc' = IF pRun.numBundles > 0 THEN "prepare" ELSE "sign"
         ELSE /\ pPc' = "failed"
              /\ UNCHANGED accountNonces
    /\ UNCHANGED << pCfg, pRun, ledgerNonce, pB, writeIdx,
                    preparedTransactions, signedTransactions, submitOps,
                    oWriteTxHashes, receiptPromises, readOps, timers >>
    /\ UNCHANGED notPrepVars

\* One turn of the loop for (let b = 0; b < numBundles; b++).
PrepareBundle ==
    /\ pPc = "prepare"
    /\ LET acc == pB % pRun.used
           bundleCalls == BundleCalls(<< >>, writeIdx, 0, pCfg.bundleSize,
                                      pRun.numWrites)
       IN  /\ writeIdx' = writeIdx + Len(bundleCalls)
           /\ IF Len(bundleCalls) > 0
              THEN /\ preparedTransactions' =
                        Append(preparedTransactions,
                               [acc |-> acc,
                                nonce |-> PreparedNonce(accountNonces, acc, pB),
                                bundleCalls |-> bundleCalls])
                   /\ accountNonces' = [accountNonces EXCEPT ![acc] = @ + 1]
              ELSE UNCHANGED << preparedTransactions, accountNonces >>
    /\ pB' = pB + 1
    /\ IF pB + 1 < pRun.numBundles
       THEN /\ pPc' = "prepare"
            /\ UNCHANGED signedTransactions
       ELSE /\ pPc' = "sign"
            /\ signedTransactions' =
                   SignJobs(Len(preparedTransactions'), pCfg.concurrency)
    /\ UNCHANGED << pCfg, pRun, ledgerNonce, submitOps, oWriteTxHashes,
                    receiptPromises, readOps, timers >>
    /\ UNCHANGED notPrepVars

\* Step 2: estimateInvokeFee of prepared transaction i resolves or rejects
\* (the fallback fee is used); the function returns the transaction, or
\* null from its outer catch.
SignResp(i) ==
    /\ signedTransactions[i].st = "estimate"
    /\ \E out \in {"signed", "null"} :
         signedTransactions' =
             StartJobs([signedTransactions EXCEPT ![i].st = out],
                       pCfg.concurrency, "estimate")
    /\ UNCHANGED << pCfg, pRun, pPc, ledgerNonce, accountNonces, pB, writeIdx,
                    preparedTransactions, submitOps, oWriteTxHashes,
                    receiptPromises, readOps, timers >>
    /\ UNCHANGED notPrepVars

\* prepTxs = (await Promise.all(signedTransactions)).filter(Boolean)
PrepTxs == SelectSeq([i \in DOMAIN signedTransactions |-> i],
                     LAMBDA i : signedTransactions[i].st = "signed")

\* The continuation of await Promise.all(signedTransactions): signDuration
\* and submitStartTime are taken and submitOps is built.
SignAllResolved ==
    /\ pPc = "sign"
    /\ AllResolved(signedTransactions)
    /\ timers' = timers \cup {"signEnd", "submitStartTime"}
    /\ submitOps' =
           StartJobs([k \in DOMAIN PrepTxs |->
                         [st |-> "queued", tx |-> PrepTxs[k]]],
                     pCfg.concurrency, "execute")
    /\ pPc' = "submit"
    /\ UNCHANGED << pCfg, pRun, ledgerNonce, accountNonces, pB, writeIdx,
                    preparedTransactions, signedTransactions, oWriteTxHashes,
                    receiptPromises, readOps >>
    /\ UNCHANGED notPrepVars

\* Step 3: account.execute of submitOps[k] resolves (the hash is pushed) or
\* rejects ({ success: false }).
SubmitResp(k) ==
    /\ submitOps[k].st = "execute"
    /\ \E ok \in BOOLEAN :
         /\ submitOps' =
                StartJobs([submitOps EXCEPT
                              ![k].st = IF ok THEN "ok" ELSE "fail"],
                          pCfg.concurrency, "execute")
         /\ oWriteTxHashes' = IF ok THEN Append(oWriteTxHashes, submitOps[k].tx)
                              ELSE oWriteTxHashes
    /\ UNCHANGED << pCfg, pRun, pPc, ledgerNonce, accountNonces, pB, writeIdx,
                    preparedTransactions, signedTransactions,
                    receiptPromises, readOps, timers >>
    /\ UNCHANGED notPrepVars

\* The continuation of await Promise.all(submitOps): submitEndTime and
\* acceptStartTime are taken and every hash is waited for.
SubmitAllResolved ==
    /\ pPc = "submit"
    /\ AllResolved(submitOps)
    /\ timers' = timers \cup {"submitEndTime", "acceptStartTime"}
    /\ receiptPromises' = [i \in DOMAIN oWriteTxHashes |-> [st |-> "wait"]]
    /\ pPc' = "accept"
    /\ UNCHANGED << pCfg, pRun, ledgerNonce, accountNonces, pB, writeIdx,
                    preparedTransactions, signedTransactions, submitOps,
                    oWriteTxHashes, readOps >>
    /\ UNCHANGED notPrepVars

\* Step 4: prov.waitForTransaction(hash) of the i-th hash resolves with a
\* receipt or rejects (null).
AcceptResp(i) ==
    /\ receiptPromises[i].st = "wait"
    /\ \E ok \in BOOLEAN :
         receiptPromises' =
             [receiptPromises EXCEPT ![i].st = IF ok THEN "receipt" ELSE "null"]
    /\ UNCHANGED << pCfg, pRun, pPc, ledgerNonce, accountNonces, pB, writeIdx,
                    preparedTransactions, signedTransactions, submitOps,
                    oWriteTxHashes, readOps, timers >>
    /\ UNCHANGED notPrepVars

\* The continuation of await Promise.all(receiptPromises): acceptDuration is
\* taken and, if (numReads > 0), readOps is built.
AcceptAllResolved ==
    /\ pPc = "accept"
    /\ AllResolved(receiptPromises)
    /\ timers' = timers \cup {"acceptEnd"}
    /\ IF pRun.numReads > 0
       THEN /\ readOps' =
                   StartJobs([i \in 1..pRun.numReads |->
                                 [st |-> "queued", attempt |-> 0]],
                             pCfg.concurrency, "call")
            /\ pPc' = "reads"
       ELSE /\ pPc' = "report"
            /\ UNCHANGED readOps
    /\ UNCHANGED << pCfg, pRun, ledgerNonce, accountNonces, pB, writeIdx,
                    preparedTransactions, signedTransactions, submitOps,
                    oWriteTxHashes, receiptPromises >>
    /\ UNCHANGED notPrepVars

\* retryWithBackoff: get_balance of read i resolves, or rejects; a rate
\* limit before the last attempt is followed by a delay, any other
\* rejection is thrown and the read returns { success: false }.
ReadCallResp(i) ==
    /\ readOps[i].st = "call"
    /\ \E out \in {"ok", "rate", "other"} :
         readOps' =
             StartJobs([readOps EXCEPT ![i].st =
                           IF out = "ok" THEN "ok"
                           ELSE IF out = "rate"
                                   /\ readOps[i].attempt < BackoffMaxRetries - 1
                           THEN "delay"
                           ELSE "fail"],
                       pCfg.concurrency, "call")
    /\ UNCHANGED << pCfg, pRun, pPc, ledgerNonce, accountNonces, pB, writeIdx,
                    preparedTransactions, signedTransactions, submitOps,
                    oWriteTxHashes, receiptPromises, timers >>
    /\ UNCHANGED notPrepVars

\* retryWithBackoff: the delay of read i has passed; continue with the next
\* attempt.
ReadDelayElapsed(i) ==
    /\ readOps[i].st = "delay"
    /\ readOps' = [readOps EXCEPT ![i].st = "call", ![i].attempt = @ + 1]
    /\ UNCHANGED << pCfg, pRun, pPc, ledgerNonce, accountNonces, pB, writeIdx,
                    preparedTransactions, signedTransactions, submitOps,
                    oWriteTxHashes, receiptPromises, timers >>
    /\ UNCHANGED notPrepVars

\* The continuation of await Promise.all(readOps).
ReadsAllResolved ==
    /\ pPc = "reads"
    /\ AllResolved(readOps)
    /\ timers' = timers \cup {"readEnd"}
    /\ pPc' = "report"
    /\ UNCHANGED << pCfg, pRun, ledgerNonce, accountNonces, pB, writeIdx,
                    preparedTransactions, signedTransactions, submitOps,
                    oWriteTxHashes, receiptPromises, readOps >>
    /\ UNCHANGED notPrepVars

PrepNext ==
    \/ NoncesFetched
    \/ PrepareBundle
    \/ \E i \in DOMAIN signedTransactions : SignResp(i)
    \/ SignAllResolved
    \/ \E k \in DOMAIN submitOps : SubmitResp(k)
    \/ SubmitAllResolved
    \/ \E i \in DOMAIN receiptPromises : AcceptResp(i)
    \/ AcceptAllResolved
    \/ \E i \in DOMAIN readOps : ReadCallResp(i)
    \/ \E i \in DOMAIN readOps : ReadDelayElapsed(i)
    \/ ReadsAllResolved

SpecPrepare == PrepInit /\ [][PrepNext]_vars

(***************************************************************************)
(* fundAccountsMadara: main, from the balance checks to the funding         *)
(* summary.                                                                *)
(***************************************************************************)
FundInit ==
    /\ fAccounts \in 1..MaxFundAccounts
    /\ fPc = "check"
    /\ balanceChecks =
           StartJobs([i \in 1..fAccounts |->
                         [st |-> "queued", needsFunding |-> FALSE]],
                     CONCURRENCY, "call")
    /\ fundingOps = << >>
    /\ funderNonce = 0
    /\ fundedCount = 0
    /\ fFailedCount = 0
    /\ SplitIdle
    /\ RunIdle
    /\ ContractIdle
    /\ PrepIdle
    /\ DeployIdle
    /\ ArgsIdle

\* getStrkBalance(acc.address) of balance check i resolves with a balance
\* at or above MIN_BALANCE, with one below it, or rejects (needsFunding:
\* true).
FundCheckResp(i) ==
    /\ balanceChecks[i].st = "call"
    /\ \E out \in {"sufficient", "low", "error"} :
         balanceChecks' =
             StartJobs([balanceChecks EXCEPT
                           ![i] = [st |-> "done",
                                   needsFunding |-> out # "sufficient"]],
                       CONCURRENCY, "call")
    /\ UNCHANGED << fAccounts, fPc, fundingOps, funderNonce, fundedCount,
                    fFailedCount >>
    /\ UNCHANGED notFundVars

\* accountsToFund.length
AccountsToFund ==
    Cardinality({i \in DOMAIN balanceChecks : balanceChecks[i].needsFunding})

\* The continuation of await Promise.all(balanceChecks): return when no
\* account needs funding, else build fundingOps.
FundChecksResolved ==
    /\ fPc = "check"
    /\ AllResolved(balanceChecks)
    /\ IF AccountsToFund = 0
       THEN /\ fPc' = "done"
            /\ UNCHANGED fundingOps
       ELSE /\ fPc' = "fund"
            /\ fundingOps' =
                   StartJobs([k \in 1..AccountsToFund |->
                                 [st |-> "queued", nonce |-> -1]],
                             CONCURRENCY, "estimate")
    /\ UNCHANGED << fAccounts, balanceChecks, funderNonce, fundedCount,
                    fFailedCount >>
    /\ UNCHANGED notFundVars

\* The catch of a funding operation: failedCount++ and a result with
\* success: false; the limiter starts the next operation.
FundCatch(k) ==
    /\ fundingOps' = StartJobs([fundingOps EXCEPT ![k].st = "fail"],
                               CONCURRENCY, "estimate")
    /\ fFailedCount' = fFailedCount + 1

\* fundAccount: fromAccount.estimateInvokeFee(call) resolves or rejects.
FundEstimateResp(k) ==
    /\ fundingOps[k].st = "estimate"
    /\ \E ok \in BOOLEAN :
         IF ok
         THEN /\ fundingOps' = [fundingOps EXCEPT ![k].st = "getNonce"]
              /\ UNCHANGED fFailedCount
         ELSE FundCatch(k)
    /\ UNCHANGED << fAccounts, fPc, balanceChecks, funderNonce, fundedCount >>
    /\ UNCHANGED notFundVars

\* fundAccount: fromAccount.getNonce('pending') resolves or rejects.
FundNonceResp(k) ==
    /\ fundingOps[k].st = "getNonce"
    /\ \E ok \in BOOLEAN :
         IF ok
         THEN /\ fundingOps' = [fundingOps EXCEPT ![k].st = "execute",
                                                  ![k].nonce = funderNonce]
              /\ UNCHANGED fFailedCount
         ELSE FundCatch(k)
    /\ UNCHANGED << fAccounts, fPc, balanceChecks, funderNonce, fundedCount >>
    /\ UNCHANGED notFundVars

\* fundAccount: fromAccount.execute(...) resolves, the ledger having taken
\* the transfer with the nonce it expected, or rejects.
FundExecuteResp(k) ==
    /\ fundingOps[k].st = "execute"
    /\ \E ok \in {TRUE, FALSE} :
         IF ok /\ fundingOps[k].nonce = funderNonce
         THEN /\ fundingOps' = [fundingOps EXCEPT ![k].st = "wait"]
              /\ funderNonce' = funderNonce + 1
              /\ UNCHANGED fFailedCount
         ELSE /\ FundCatch(k)
              /\ UNCHANGED funderNonce
    /\ UNCHANGED << fAccounts, fPc, balanceChecks, fundedCount >>
    /\ UNCHANGED notFundVars

\* fundAccount: provider.waitForTransaction(hash) resolves (fundAccount
\* returns and fundedCount++) or rejects.
FundWaitResp(k) ==
    /\ fundingOps[k].st = "wait"
    /\ \E ok \in BOOLEAN :
         IF ok
         THEN /\ fundingOps' = [fundingOps EXCEPT ![k].st = "balance"]
              /\ fundedCount' = fundedCount + 1
              /\ UNCHANGED fFailedCount
         ELSE /\ FundCatch(k)
              /\ UNCHANGED fundedCount
    /\ UNCHANGED << fAccounts, fPc, balanceChecks, funderNonce >>
    /\ UNCHANGED notFundVars

\* getStrkBalance(account.address) after the transfer resolves (success:
\* true) or rejects into the same catch.
FundBalanceResp(k) ==
    /\ fundingOps[k].st = "balance"
    /\ \E ok \in BOOLEAN :
         IF ok
         THEN /\ fundingOps' = StartJobs([fundingOps EXCEPT ![k].st = "ok"],
                                         CONCURRENCY, "estimate")
              /\ UNCHANGED fFailedCount
         ELSE FundCatch(k)
    /\ UNCHANGED << fAccounts, fPc, balanceChecks, funderNonce, fundedCount >>
    /\ UNCHANGED notFundVars

\* The continuation of await Promise.all(fundingOps): the funding summary.
FundSummary ==
    /\ fPc = "fund"
    /\ AllResolved(fundingOps)
    /\ fPc' = "summary"
    /\ UNCHANGED << fAccounts, balanceChecks, fundingOps, funderNonce,
                    fundedCount, fFailedCount >>
    /\ UNCHANGED notFundVars

FundNext ==
    \/ \E i \in DOMAIN balanceChecks : FundCheckResp(i)
    \/ FundChecksResolved
    \/ \E k \in DOMAIN fundingOps : FundEstimateResp(k)
    \/ \E k \in DOMAIN fundingOps : FundNonceResp(k)
    \/ \E k \in DOMAIN fundingOps : FundExecuteResp(k)
    \/ \E k \in DOMAIN fundingOps : FundWaitResp(k)
    \/ \E k \in DOMAIN fundingOps : FundBalanceResp(k)
    \/ FundSummary

SpecFund == FundInit /\ [][FundNext]_vars

(***************************************************************************)
(* deployAccountsMadara: main, from the deployment checks to the            *)
(* deployment summary, and deployAccount by its remote calls: the check of  *)
(* the computed address, the funding transfer, the balance verification,    *)
(* the deployment with its retries, its confirmation and its verification.  *)
(***************************************************************************)
\* The identifiers the catch block of deployAccount can see: the parameters
\* of the function and its own err.  The let and const declarations of the
\* try block (expectedAddress, ..., normalizedAddress, ...) are scoped to
\* that block.
CatchScope == {"accountData", "deployerAccount", "accountClassHash",
               "strkTokenAddress", "err", "errorMsg"}

\* The identifiers the catch block reads.
CatchReads == {"err", "errorMsg", "accountData", "normalizedAddress"}

\* The catch block of deployAccount: it returns { success: false, ... }, or
\* throws a ReferenceError when it reads an identifier out of its scope.
CatchOutcome ==
    IF CatchReads \subseteq CatchScope THEN "failed" ELSE "rejected"

DeployInit ==
    /\ dAccounts \in 1..MaxDeployAccounts
    /\ dPc = "check"
    /\ deploymentChecks =
           StartJobs([i \in 1..dAccounts |->
                         [st |-> "queued", alreadyDeployed |-> FALSE]],
                     CONCURRENCY, "check")
    /\ deploymentOps = << >>
    /\ deployedCount = 0
    /\ dFailedCount = 0
    /\ failedAccountsFile = FALSE
    /\ SplitIdle
    /\ RunIdle
    /\ ContractIdle
    /\ PrepIdle
    /\ FundIdle
    /\ ArgsIdle

\* checkAccountDeployed(acc.address) of deployment check i returns true or
\* false; it never throws.
DeployCheckResp(i) ==
    /\ deploymentChecks[i].st = "check"
    /\ \E deployed \in BOOLEAN :
         deploymentChecks' =
             StartJobs([deploymentChecks EXCEPT
                           ![i] = [st |-> "done",
                                   alreadyDeployed |-> deployed]],
                       CONCURRENCY, "check")
    /\ UNCHANGED << dAccounts, dPc, deploymentOps, deployedCount,
                    dFailedCount, failedAccountsFile >>
    /\ UNCHANGED notDeployVars

\* accountsToDeploy.length
AccountsToDeploy ==
    Cardinality({i \in DOMAIN deploymentChecks :
                    ~deploymentChecks[i].alreadyDeployed})

\* The continuation of await Promise.all(deploymentChecks): return when
\* every account is deployed, else build deploymentOps.
DeployChecksResolved ==
    /\ dPc = "check"
    /\ AllResolved(deploymentChecks)
    /\ IF AccountsToDeploy = 0
       THEN /\ dPc' = "done"
            /\ UNCHANGED deploymentOps
       ELSE /\ dPc' = "deploy"
            /\ deploymentOps' =
                   StartJobs([k \in 1..AccountsToDeploy |->
                                 [st |-> "queued", attempt |-> 0,
                                  error |-> "none"]],
                             CONCURRENCY, "check")
    /\ UNCHANGED << dAccounts, deploymentChecks, deployedCount, dFailedCount,
                    failedAccountsFile >>
    /\ UNCHANGED notDeployVars

\* deployAccount throws `why` inside its try block: the catch block runs.
\* When it returns, the callback counts the failure; when it throws, the
\* callback rejects and with it Promise.all(deploymentOps) and main.  The
\* limiter starts the next operation in both cases.
DeployThrow(k, why) ==
    /\ deploymentOps' =
           StartJobs([deploymentOps EXCEPT ![k].st = CatchOutcome,
                                           ![k].error = why],
                     CONCURRENCY, "check")
    /\ IF CatchOutcome = "failed"
       THEN /\ dFailedCount' = dFailedCount + 1
            /\ UNCHANGED dPc
       ELSE /\ dPc' = IF dPc = "deploy" THEN "rejected" ELSE dPc
            /\ UNCHANGED dFailedCount

\* deployAccount returns a result with success: true.
DeployReturn(k, st) ==
    /\ deploymentOps' = StartJobs([deploymentOps EXCEPT ![k].st = st],
                                  CONCURRENCY, "check")
    /\ UNCHANGED << dPc, dFailedCount >>

\* checkAccountDeployed(normalizedAddress) returns true (already deployed,
\* skipping) or false.
DeployAddressChecked(k) ==
    /\ deploymentOps[k].st = "check"
    /\ \E deployed \in BOOLEAN :
         IF deployed
         THEN DeployReturn(k, "already")
         ELSE /\ deploymentOps' = [deploymentOps EXCEPT ![k].st = "fund"]
              /\ UNCHANGED << dPc, dFailedCount >>
    /\ UNCHANGED << dAccounts, deploymentChecks, deployedCount,
                    failedAccountsFile >>
    /\ UNCHANGED notDeployVars

\* fundAccountAddress(normalizedAddress, ...) resolves or throws 'Funding
\* failed: ...'.
DeployFundResp(k) ==
    /\ deploymentOps[k].st = "fund"
    /\ \E ok \in BOOLEAN :
         IF ok
         THEN /\ deploymentOps' = [deploymentOps EXCEPT ![k].st = "balance"]
              /\ UNCHANGED << dPc, dFailedCount >>
         ELSE DeployThrow(k, "funding")
    /\ UNCHANGED << dAccounts, deploymentChecks, deployedCount,
                    failedAccountsFile >>
    /\ UNCHANGED notDeployVars

\* The balance checks after the funding: the balance is at least 1 STRK in
\* the end, or one of the 'balance too low' errors is thrown.
DeployBalanceResp(k) ==
    /\ deploymentOps[k].st = "balance"
    /\ \E ok \in BOOLEAN :
         IF ok
         THEN /\ deploymentOps' = [deploymentOps EXCEPT ![k].st = "deploy",
                                                        ![k].attempt = 1]
              /\ UNCHANGED << dPc, dFailedCount >>
         ELSE DeployThrow(k, "lowBalance")
    /\ UNCHANGED << dAccounts, deploymentChecks, deployedCount,
                    failedAccountsFile >>
    /\ UNCHANGED notDeployVars

\* One attempt of the deployment resolves, or rejects: a 'Max fee ...
\* balance' error is retried until attempt maxRetries, any other error is
\* thrown at once.
DeployAttemptResp(k) ==
    /\ deploymentOps[k].st = "deploy"
    /\ \E out \in {"ok", "maxFeeBalance", "other"} :
         IF out = "ok"
         THEN /\ deploymentOps' = [deploymentOps EXCEPT ![k].st = "wait"]
              /\ UNCHANGED << dPc, dFailedCount >>
         ELSE IF out = "maxFeeBalance"
                 /\ deploymentOps[k].attempt < DeployMaxRetries
         THEN /\ deploymentOps' = [deploymentOps EXCEPT ![k].attempt = @ + 1]
              /\ UNCHANGED << dPc, dFailedCount >>
         ELSE DeployThrow(k, "deployment")
    /\ UNCHANGED << dAccounts, deploymentChecks, deployedCount,
                    failedAccountsFile >>
    /\ UNCHANGED notDeployVars

\* provider.waitForTransaction(deployResponse.transaction_hash) resolves or
\* rejects.
DeployWaitResp(k) ==
    /\ deploymentOps[k].st = "wait"
    /\ \E ok \in BOOLEAN :
         IF ok
         THEN /\ deploymentOps' = [deploymentOps EXCEPT ![k].st = "verify"]
              /\ UNCHANGED << dPc, dFailedCount >>
         ELSE DeployThrow(k, "confirmation")
    /\ UNCHANGED << dAccounts, deploymentChecks, deployedCount,
                    failedAccountsFile >>
    /\ UNCHANGED notDeployVars

\* checkAccountDeployed(deployedAddress) returns true (success: true and
\* deployedCount++) or false ('Deployment verification failed').
DeployVerifyResp(k) ==
    /\ deploymentOps[k].st = "verify"
    /\ \E deployed \in BOOLEAN :
         IF deployed
         THEN /\ DeployReturn(k, "deployed")
              /\ deployedCount' = deployedCount + 1
         ELSE /\ DeployThrow(k, "verification")
              /\ UNCHANGED deployedCount
    /\ UNCHANGED << dAccounts, deploymentChecks, failedAccountsFile >>
    /\ UNCHANGED notDeployVars

\* The continuation of await Promise.all(deploymentOps): the deployment
\* summary, and the file of the failed accounts when there are any.
DeploySummary ==
    /\ dPc = "deploy"
    /\ AllResolved(deploymentOps)
    /\ dPc' = "summary"
    /\ failedAccountsFile' =
           (\E k \in DOMAIN deploymentOps : deploymentOps[k].st = "failed")
    /\ UNCHANGED << dAccounts, deploymentChecks, deploymentOps, deployedCount,
                    dFailedCount >>
    /\ UNCHANGED notDeployVars

DeployNext ==
    \/ \E i \in DOMAIN deploymentChecks : DeployCheckResp(i)
    \/ DeployChecksResolved
    \/ \E k \in DOMAIN deploymentOps : DeployAddressChecked(k)
    \/ \E k \in DOMAIN deploymentOps : DeployFundResp(k)
    \/ \E k \in DOMAIN deploymentOps : DeployBalanceResp(k)
    \/ \E k \in DOMAIN deploymentOps : DeployAttemptResp(k)
    \/ \E k \in DOMAIN deploymentOps : DeployWaitResp(k)
    \/ \E k \in DOMAIN deploymentOps : DeployVerifyResp(k)
    \/ DeploySummary

SpecDeploy == DeployInit /\ [][DeployNext]_vars

(***************************************************************************)
(* The command line of the three batch scripts: the parsing of batchSize   *)
(* and readRatio, and the read/write split of blend mode they lead to.     *)
(***************************************************************************)
\* An argument of the command line: absent, or the decimal of a number.
Absent == [given |-> FALSE, k |-> 0, den |-> 1]

Arg(k, den) == [given |-> TRUE, k |-> k, den |-> den]

\* parseInt(a): NaN for undefined, else the integer written.
ParseInt(a) == [nan |-> ~a.given, n |-> a.k]

\* parseFloat(a): NaN for undefined, else the double nearest to k/den.
ParseFloat(a) == [nan |-> ~a.given, k |-> a.k, den |-> a.den]

\* x || d on the result of parseInt: NaN and 0 are falsy.
IntOrDefault(x, d) == IF x.nan \/ x.n = 0 THEN d ELSE x.n

\* The number literal 0.2
DefaultReadRatio == [k |-> 2, den |-> 10]

\* x || 0.2 on the result of parseFloat: NaN and 0 are falsy.
FloatOrDefault(x, d) ==
    IF x.nan \/ DoubleOf(x.k, x.den) = DoubleOf(0, 1)
    THEN d
    ELSE [k |-> x.k, den |-> x.den]

ArgsInit ==
    /\ aScript \in {"local", "madara", "optimized"}
    /\ args \in [batchSize : {Absent} \cup {Arg(n, 1) : n \in 0..MaxArgBatch},
                 readRatio : {Absent}
                             \cup {Arg(k, ArgRatioDen) : k \in 0..ArgRatioDen}]
    /\ aAccounts \in 1..MaxArgAccounts
    /\ aPc = "start"
    /\ batchSizeArg = 0
    /\ readRatioArg = [k |-> 0, den |-> 1]
    /\ aBatch = -1
    /\ aWrites = -1
    /\ aReads = -1
    /\ SplitIdle
    /\ RunIdle
    /\ ContractIdle
    /\ PrepIdle
    /\ FundIdle
    /\ DeployIdle

\* const batchSizeArg = parseInt(args[0]) || 50;
\* const readRatioArg = parseFloat(args[2]) || 0.2;
ParseArgs ==
    /\ aPc = "start"
    /\ batchSizeArg' = IntOrDefault(ParseInt(args.batchSize), DefaultBatchSize)
    /\ readRatioArg' =
           FloatOrDefault(ParseFloat(args.readRatio), DefaultReadRatio)
    /\ aPc' = "parsed"
    /\ UNCHANGED << aScript, args, aAccounts, aBatch, aWrites, aReads >>
    /\ UNCHANGED notArgsVars

\* The script's run in blend mode, up to numWrites and numReads: batchSize
\* is adjusted to the accounts with a sufficient balance by runBatchTest of
\* the local variant and by runOptimizedBatchTest.
ArgsSplit ==
    /\ aPc = "parsed"
    /\ LET bs == EffectiveBatch(IF aScript = "madara" THEN "madara"
                                                     ELSE "local",
                                aAccounts, batchSizeArg)
           nw == NumWritesOf(bs, readRatioArg.k, readRatioArg.den)
       IN  /\ aBatch' = bs
           /\ aWrites' = nw
           /\ aReads' = bs - nw
    /\ aPc' = "split"
    /\ UNCHANGED << aScript, args, aAccounts, batchSizeArg, readRatioArg >>
    /\ UNCHANGED notArgsVars

ArgsNext == ParseArgs \/ ArgsSplit

SpecArgs == ArgsInit /\ [][ArgsNext]_vars

(***************************************************************************)
(* Properties of runBatchTest and of the split.                            *)
(***************************************************************************)
\* runBatchTest has returned or thrown.
Ended == mainPc \in {"done", "failed"}

\* Promise.all(ops) has resolved.
PoolCompleted ==
    /\ DOMAIN ops # {}
    /\ mainPc \in {"retry", "after", "confirm", "final", "info", "done"}
       \/ (mainPc = "failed" /\ cause \in {"balances", "batchInfo"})

\* The final report has been printed.
Reported ==
    \/ mainPc \in {"info", "done"}
    \/ mainPc = "failed" /\ cause = "batchInfo"

\* The transactions whose confirmation wait returned a receipt.
ConfirmedWrites == Cardinality({i \in DOMAIN rcpt : rcpt[i] = "receipt"})

\* The remote calls in flight.
Outstanding ==
    (IF mainPc \in {"deployed", "balance"} THEN chk.running ELSE 0)
    + (IF mainPc \in {"before", "after"} THEN shared.balOut ELSE 0)
    + (IF mainPc = "prefetch"
       THEN 2 * Cardinality({a \in DOMAIN nonces : nonces[a].pc = "both"})
            + Cardinality({a \in DOMAIN nonces : nonces[a].pc = "one"})
       ELSE 0)
    + (IF PoolRunning
       THEN Cardinality({b \in DOMAIN ops : ops[b].pc \in
                {"read", "estimate", "getNonce", "execute", "refresh"}})
       ELSE 0)
    + (IF mainPc = "retry" THEN 1 ELSE 0)
    + (IF mainPc = "confirm"
       THEN Cardinality({i \in DOMAIN rcpt : rcpt[i] = "wait"}) ELSE 0)
    + (IF mainPc = "final" THEN tally.finOut ELSE 0)
    + (IF mainPc = "info" THEN 1 ELSE 0)

\* Nothing of the batch has happened: no operation was created, no balance
\* of the test contract was read, no nonce was fetched, nothing was submitted.
NothingAttempted ==
    /\ DOMAIN ops = {}
    /\ DOMAIN nonces = {}
    /\ rcpt = << >>
    /\ writeTxHashes = {}
    /\ failedWrites = << >>
    /\ shared = [opIndex |-> 0, sentCount |-> 0, balOut |-> 0]
    /\ tally = [readsOk |-> 0, finOut |-> 0]
    /\ retry = [idx |-> 0, step |-> "none"]
    /\ \A a \in DOMAIN chain : chain[a] = 0
    /\ ~Reported

\* floor(batchSize * (1 - k/den)) in exact arithmetic.
ExactWrites(batchSize, k, den) == (batchSize * (den - k)) \div den

\* The operations that have issued their first remote call, by type.
AttemptedOps(type) ==
    Cardinality({b \in DOMAIN ops : ops[b].type = type /\ ops[b].at # "none"})

\* C1: in the local variant no failure of a single read or write aborts the
\* run: runBatchTest never throws because an operation of the pool rejected.
C1_NoOperationFailureAborts ==
    cfg.variant = "local" => ~(mainPc = "failed" /\ cause = "op")

\* C2: the counts of the final report are the reads that succeeded and the
\* writes whose confirmation returned a receipt.
C2_ReportCountsWhatSucceeded ==
    Reported =>
        /\ report.reads = tally.readsOk
        /\ report.writes = ConfirmedWrites

\* C3: the remote calls in flight (balance reads, nonce fetches, submissions,
\* confirmation waits) never number more than the concurrency limit.
C3_OutstandingWithinLimit == Outstanding <= cfg.concurrency

\* C4: in the Madara variant no two writes that are submitted and not yet
\* answered carry the same account and the same nonce.
C4_NoSharedNonceInFlight ==
    cfg.variant = "madara" =>
        \A b, c \in DOMAIN ops :
            (/\ b # c
             /\ ops[b].pc = "execute"
             /\ ops[c].pc = "execute"
             /\ ops[b].acc = ops[c].acc)
            => ops[b].nonce # ops[c].nonce

\* C5: in blend mode, once runBatchTest has ended, every write that was put
\* on the retry list after a nonce conflict has been submitted exactly once
\* more.
C5_RequeuedResubmittedOnce ==
    (cfg.mode = "blend" /\ (Ended \/ Reported)) =>
        \A i \in DOMAIN failedWrites : ops[failedWrites[i]].submits = 2

\* C6: the split is writes = floor(batchSize * (1 - readRatio)) and
\* reads = batchSize - writes, for every batchSize and every readRatio.
C6_SplitIsExactFloor ==
    sWrites # -1 =>
        /\ sWrites = ExactWrites(sBatch, sRatio, RatioDen)
        /\ sReads = sBatch - sWrites

\* C7: when every check has answered and no account is eligible (none
\* deployed, or none with the minimum balance), runBatchTest has thrown its
\* precondition error and nothing of the batch has happened: no operation, no
\* read of the test contract, no nonce fetch for a write, no submission.
C7_NoOperationWithoutEligibleAccount ==
    (/\ chk.queued = 0
     /\ chk.running = 0
     /\ chk.passed = 0
     /\ cause # "balanceRead")
    => (/\ mainPc = "failed"
        /\ cause \in {"noAccounts", "noDeployed"}
        /\ NothingAttempted)

\* C7, its case: all accounts were deployed and every balance came back
\* below the minimum.
C7_Witness ==
    /\ cfg.variant = "madara"
    /\ cfg.accounts = MaxAccounts
    /\ mainPc = "failed"
    /\ cause = "noAccounts"

C9_RetriesBounded ==
    \A b \in DOMAIN ops :
        /\ ops[b].calls <= 3
        /\ (cfg.mode = "blend" /\ ops[b].pc = "read" /\ ops[b].calls > 1)
               => ops[b].lastErr = "rate"
        /\ (/\ cfg.mode = "blend"
            /\ ops[b].at = "read"
            /\ ops[b].res = "rejected"
            /\ ops[b].lastErr = "rate")
               => ops[b].calls = 3
        /\ cfg.mode = "rwr"
               => ops[b].submits <= (IF cfg.variant = "local" THEN 3 ELSE 5)

\* C9, its case: a read ended as failed on the rate-limit error of its third
\* call.
C9_Witness ==
    \E b \in DOMAIN ops :
        /\ ops[b].at = "read"
        /\ ops[b].res = "rejected"
        /\ ops[b].lastErr = "rate"
        /\ ops[b].calls = 3

\* C10: a write never ends on a rate-limited submission that it has not
\* retried in place.
C10_RateLimitedWriteRetriedInPlace ==
    \A b \in DOMAIN ops :
        (/\ ops[b].pc = "done"
         /\ ops[b].at = "execute"
         /\ ops[b].lastErr = "rate")
        => ops[b].submits > 1

\* The operations whose promise has rejected.
RejectedOps == {b \in DOMAIN ops : ops[b].res = "rejected"}

\* C11: in blend mode a write whose submission failed with an error that is
\* neither a nonce conflict nor a rate limit was submitted that one time only,
\* is not on the retry list, has no hash among the successful write
\* transactions, and does not stop the rest of the batch: its promise resolves
\* (with null), the limiter keeps every slot busy while operations are queued,
\* and if runBatchTest threw on an operation it was on another one.
C11_OtherErrorWriteDropped ==
    cfg.mode = "blend" =>
        \A b \in DOMAIN ops :
            (/\ ops[b].type = "write"
             /\ ops[b].at = "execute"
             /\ ops[b].lastErr = "other")
            => /\ ops[b].submits = 1
               /\ ops[b].res = "null"
               /\ b \notin writeTxHashes
               /\ \A i \in DOMAIN failedWrites : failedWrites[i] # b
               /\ QueuedOps(ops) # {}
                      => Cardinality(ActiveOps(ops)) = cfg.concurrency
               /\ (mainPc = "failed" /\ cause = "op")
                      => RejectedOps \ {b} # {}

\* C11, its case: with one slot, the first write failed with such an error,
\* the operation queued behind it ran and succeeded, and the report was printed.
C11_Witness ==
    /\ cfg.mode = "blend"
    /\ cfg.concurrency = 1
    /\ DOMAIN ops = {0, 1}
    /\ ops[0].type = "write"
    /\ ops[0].at = "execute"
    /\ ops[0].lastErr = "other"
    /\ ops[1].res = "ok"
    /\ Reported

\* The confirmation waits that have ended, with a receipt or with an error.
AwaitedWrites == {i \in DOMAIN rcpt : rcpt[i] \in {"receipt", "null"}}

\* C12: when the final report is printed, every transaction that was
\* submitted has been awaited (waitForTransaction returned its receipt or
\* threw), and the time taken as the end of the submission phase was taken
\* before any confirmation wait was started.
C12_ReportAfterConfirmation ==
    Reported =>
        /\ Cardinality(AwaitedWrites) = Cardinality(writeTxHashes)
        /\ report.waitsAtSubmitEnd = 0

\* The transactions the ledger took into its log and no confirmation wait
\* failed on.
LedgerConfirmed ==
    Cardinality(writeTxHashes) - Cardinality({i \in DOMAIN rcpt : rcpt[i] = "null"})

\* C13: in blend and in rwr mode the total cost of the final report is the
\* sum of the fees of the confirmed writes of the run.
C13_CostIsSumOfConfirmedFees ==
    Reported => report.cost = TxFee * LedgerConfirmed

\* C14: with concurrency = 1 at most one operation of the pool is in
\* progress, and an operation has left the limiter's queue only when every
\* operation started before it has completed, as fulfilled or as rejected.
C14_SerializedAtConcurrencyOne ==
    cfg.concurrency = 1 =>
        /\ Cardinality(ActiveOps(ops)) <= 1
        /\ \A b, c \in DOMAIN ops :
               (b < c /\ ops[c].pc # "queued") => ops[b].pc = "done"

\* C14, its case: with one slot the first operation has failed and the second
\* one has its first remote call in flight.
C14_Witness ==
    /\ cfg.concurrency = 1
    /\ DOMAIN ops = {0, 1}
    /\ ops[0].pc = "done"
    /\ ops[0].res = "rejected"
    /\ ops[1].pc \in {"read", "estimate"}

\* C15: a write that the retry pass has submitted again was put on the retry
\* list, and was sent again from the account and with the bundle of calls of
\* its first submission; the nonce it carries was fetched in the retry pass.
C15_RetryKeepsAccountAndBundle ==
    \A b \in DOMAIN ops :
        ops[b].resent.acc # -1 =>
            /\ \E i \in DOMAIN failedWrites : failedWrites[i] = b
            /\ ops[b].lastErr # "other"
            /\ ops[b].resent.acc = ops[b].acc
            /\ ops[b].resent.lo = ops[b].lo
            /\ ops[b].resent.len = ops[b].len
            /\ (mainPc = "retry" /\ retry.step = "execute"
                /\ failedWrites[retry.idx] = b) => ops[b].nonce >= 0

\* C15, its case: a nonce-conflicted write was accepted in the retry pass
\* after another write had been submitted and had moved sentCount on.
C15_Witness ==
    /\ shared.sentCount > 0
    /\ \E b \in DOMAIN ops :
          /\ ops[b].resent.acc # -1
          /\ ops[b].res = "retried"

C17_BatchUpdateAdminOnly ==
    [][/\ admin_address' = admin_address
       /\ (lastCall'.fn = "batch_update" /\ lastCall'.caller # admin_address)
              => /\ lastCall'.result = "Only admin can batch update"
                 /\ balances' = balances
                 /\ addresses' = addresses
                 /\ address_count' = address_count]_vars

\* C17, its case: a batch_update of another caller than the admin has failed
\* on a contract that holds balances.
C17_Witness ==
    /\ lastCall.fn = "batch_update"
    /\ lastCall.caller # admin_address
    /\ lastCall.result = "Only admin can batch update"
    /\ address_count > 0

\* The write operations of the pool.
WriteOps == {b \in DOMAIN ops : ops[b].type = "write"}

\* The submitted transactions whose bundle carries update idx + 1.
Carriers(idx) ==
    {b \in writeTxHashes : ops[b].lo <= idx /\ idx < ops[b].lo + ops[b].len}

\* C18: in blend mode, when every write of the pool has been submitted, no
\* submitted bundle is empty and every update 1..numWrites is carried by
\* exactly one of them, however the operations interleave.
C18_BundlesCoverEachUpdateOnce ==
    (/\ cfg.mode = "blend"
     /\ PoolCompleted
     /\ WriteOps # {}
     /\ WriteOps \subseteq writeTxHashes)
    => /\ \A b \in writeTxHashes : ops[b].len > 0
       /\ \A idx \in 0..(run.numWrites - 1) : Cardinality(Carriers(idx)) = 1

\* The prepared transactions of the account of the i-th one that precede it.
EarlierOfAccount(i) ==
    {j \in 1..(i - 1) :
        preparedTransactions[j].acc = preparedTransactions[i].acc}

\* C19: the nonces of the prepared transactions of one account are the
\* nonce fetched for the account, then one more for each transaction of the
\* account prepared before: the first one carries the fetched nonce, and none
\* is skipped or repeated.
C19_PreparedNoncesConsecutive ==
    \A i \in DOMAIN preparedTransactions :
        preparedTransactions[i].nonce =
            ledgerNonce[preparedTransactions[i].acc]
            + Cardinality(EarlierOfAccount(i))

\* The operations of account a that have started, in the order they started.
StartedOf(a) ==
    {b \in DOMAIN ops : ops[b].pc # "queued" /\ ops[b].acc = a}

\* C20: in rwr mode of the Madara runBatchTest, whatever the interleaving,
\* the optimistic nonces first given to the operations of one account are
\* pairwise distinct and are the base nonce of the account, the base plus
\* one, and so on, one per operation of the account in the order they
\* start; the per-account counter counts the operations started.
C20_OptimisticNoncesFromBase ==
    (cfg.variant = "madara" /\ cfg.mode = "rwr") =>
        /\ \A a \in DOMAIN nonces :
              nonces[a].counter = Cardinality(StartedOf(a))
        /\ \A b \in DOMAIN ops :
              ops[b].optNonce.kind # "none" =>
                  ToBigInt(ops[b].optNonce) =
                      ToBigInt(nonces[ops[b].acc].base)
                      + Cardinality({c \in StartedOf(ops[b].acc) : c < b})
        /\ \A b, c \in DOMAIN ops :
              (b # c /\ ops[b].optNonce.kind # "none"
                     /\ ops[c].optNonce.kind # "none"
                     /\ ops[b].acc = ops[c].acc) =>
                  ToBigInt(ops[b].optNonce) # ToBigInt(ops[c].optNonce)


\* The preparation loop of runOptimizedBatchTest has ended.
PrepEnded == pPc \notin {"nonces", "prepare", "failed"}

\* The new_balance values of the first k prepared transactions, in order.
RECURSIVE PreparedValues(_)
PreparedValues(k) ==
    IF k = 0 THEN << >>
    ELSE PreparedValues(k - 1) \o preparedTransactions[k].bundleCalls

\* C21: in blend mode of runOptimizedBatchTest exactly
\* ceil(writes / bundleSize) transactions are prepared, each holds between 1
\* and bundleSize updates, and together they carry the values 1..writes,
\* each once, in increasing order.
C21_PreparedBundlesCoverWrites ==
    PrepEnded =>
        LET k == Len(preparedTransactions)
        IN  /\ k * pCfg.bundleSize >= pRun.numWrites
            /\ k > 0 => (k - 1) * pCfg.bundleSize < pRun.numWrites
            /\ \A i \in 1..k :
                  Len(preparedTransactions[i].bundleCalls)
                      \in 1..pCfg.bundleSize
            /\ PreparedValues(k) = [v \in 1..pRun.numWrites |-> v]

\* Two transactions are prepared and the last one is not full.
C21_Witness ==
    /\ PrepEnded
    /\ Len(preparedTransactions) >= 2
    /\ Len(preparedTransactions[Len(preparedTransactions)].bundleCalls)
           < pCfg.bundleSize


\* The promises of `jobs` that have not settled.
Unsettled(jobs) ==
    {i \in DOMAIN jobs : jobs[i].st \in
        {"queued", "estimate", "execute", "wait", "call", "delay"}}

\* The functions of `jobs` that have been started.
StartedJobs(jobs) == {i \in DOMAIN jobs : jobs[i].st # "queued"}

Assigned == {b \in DOMAIN ops : ops[b].acc # -1}

\* The operations that have been given account a.
AssignedTo(a) == {b \in Assigned : ops[b].acc = a}

\* C23 as stated: in blend mode of runBatchTest the k-th operation to start
\* (the limiter starts them in the order of the batch) uses eligible
\* account k mod n.
C23_RoundRobinInStartOrder ==
    cfg.mode = "blend" =>
        \A b \in Assigned : ops[b].acc = b % run.n

\* C23, amended: in blend mode of runBatchTest the k-th operation to take
\* its account (at its start in the Madara variant, after its initial delay
\* in the local variant) gets eligible account k mod n; so the numbers of
\* operations given to any two eligible accounts differ by at most one.
C23_RoundRobinInAssignmentOrder ==
    cfg.mode = "blend" =>
        /\ shared.opIndex = Cardinality(Assigned)
        /\ \A a \in 0..(run.n - 1) :
              Cardinality(AssignedTo(a)) =
                  Cardinality({k \in 0..(shared.opIndex - 1) : k % run.n = a})
        /\ \A a, c \in 0..(run.n - 1) :
              Cardinality(AssignedTo(a)) <= Cardinality(AssignedTo(c)) + 1

\* Local variant: the delay of the second operation ended first, so it
\* took the first account and the first operation the second.
C23_Witness ==
    /\ cfg.mode = "blend"
    /\ cfg.variant = "local"
    /\ DOMAIN ops = {0, 1}
    /\ ops[0].acc = 1
    /\ ops[1].acc = 0


\* C24: after any sequence of update_balance, update_and_get and
\* batch_update calls, with any balance values, zero included, the tracked
\* address list holds each address at most once, and address_count is the
\* number of distinct addresses written so far (each of them is on the list
\* from its first write on).
C24_TrackedAddressesUnique ==
    /\ \A i, j \in 0..(address_count - 1) :
          i # j => addresses[i] # addresses[j]
    /\ address_count =
          Cardinality({addresses[i] : i \in 0..(address_count - 1)})

\* C30: after any sequence of update_balance, update_and_get and
\* batch_update calls, every address with a non-zero balance is on the
\* tracked list, and get_all_balances returns the pair of the address and
\* its current balance.
C30_NonZeroBalanceIsTracked ==
    \A a \in DOMAIN balances :
        balances[a] # 0 =>
            /\ \E i \in 0..(address_count - 1) : addresses[i] = a
            /\ \E k \in DOMAIN get_all_balances :
                  get_all_balances[k] = << a, balances[a] >>

\* The admin has set a non-zero balance for another address by
\* batch_update, after that address had written a zero itself.
C30_Witness ==
    /\ lastCall.fn = "batch_update"
    /\ lastCall.result = "ok"
    /\ address_count = 2
    /\ \E a \in DOMAIN balances :
          /\ a # admin_address
          /\ balances[a] # 0
          /\ addresses[0] = a
          /\ addresses[1] = a


\* C25: after any sequence of set_batch_info calls, with any batch_id, the
\* batch-id list holds each batch_id at most once (a call with a batch_id
\* stored before overwrites the record and appends nothing), so
\* get_all_batch_infos returns one record per batch_id.
C25_BatchIdsUnique ==
    /\ \A i, j \in 0..(batch_count - 1) :
          i # j => batch_ids[i] # batch_ids[j]
    /\ \A k, l \in DOMAIN get_all_batch_infos :
          k # l => get_all_batch_infos[k].batch_id
                      # get_all_batch_infos[l].batch_id


\* The funding operations whose transfer is with the ledger or about to be
\* sent: execute or waitForTransaction is awaited.
InFlightTransfers ==
    {k \in DOMAIN fundingOps : fundingOps[k].st \in {"execute", "wait"}}

\* C26: in fundAccountsMadara, with CONCURRENCY = 1, the funder never has
\* two transfers in flight (a transfer is submitted only when every earlier
\* funding operation has ended, its transfer confirmed or failed), no
\* transfer is submitted with a nonce the ledger has already taken from an
\* earlier transfer, and at the summary fundedCount + failedCount is the
\* number of accounts that needed funding.
C26_FundingSequentialAndCounted ==
    /\ Cardinality(InFlightTransfers) <= 1
    /\ \A k \in InFlightTransfers :
          \A j \in 1..(k - 1) : fundingOps[j].st \in {"ok", "fail"}
    /\ \A k \in DOMAIN fundingOps :
          fundingOps[k].st = "execute" => fundingOps[k].nonce = funderNonce
    /\ fPc = "summary" => fundedCount + fFailedCount = AccountsToFund


\* The deployment operations in which deployAccount has thrown inside its
\* try block.
DeployErrors ==
    {k \in DOMAIN deploymentOps : deploymentOps[k].error # "none"}

\* C27: in deployAccountsMadara a failure while deploying an account
\* (funding, low balance, deployment after its retries, confirmation,
\* verification) is returned by deployAccount as a result with success
\* false and never as a rejected promise: main is not rejected, failedCount
\* counts the failures, and when every account has been processed the
\* summary is produced, with the file of the failed accounts when there is
\* a failure.
C27_DeployFailureIsAResult ==
    /\ \A k \in DeployErrors : deploymentOps[k].st = "failed"
    /\ dPc # "rejected"
    /\ dFailedCount = Cardinality(DeployErrors)
    /\ dPc = "summary" => failedAccountsFile = (DeployErrors # {})


\* The first-pass writes of account a that have started and not settled.
WritesInFlight(a) ==
    {b \in AssignedTo(a) : ops[b].type = "write" /\ ops[b].pc # "done"}

\* C28: in the local variant of runBatchTest, once batchSize has been
\* adjusted to the number of eligible accounts, a blend batch has at most
\* as many first-pass operations as eligible accounts, no account is
\* assigned to two of them, and at most one first-pass write of an account
\* is in flight.
C28_LocalBlendOneOperationPerAccount ==
    (cfg.variant = "local" /\ cfg.mode = "blend" /\ run # NoRun) =>
        /\ run.numReads + run.numWrites <= run.n
        /\ Cardinality(DOMAIN ops) <= run.n
        /\ \A a \in 0..(run.n - 1) :
             /\ Cardinality(AssignedTo(a)) <= 1
             /\ Cardinality(WritesInFlight(a)) <= 1

\* The adjustment has lowered batchSize, every operation of the batch has
\* its account, and a write is in flight.
C28_Witness ==
    /\ cfg.variant = "local"
    /\ cfg.mode = "blend"
    /\ run # NoRun
    /\ run.batchSize < cfg.batchSize
    /\ ops # << >>
    /\ Assigned = DOMAIN ops
    /\ \E a \in 0..(run.n - 1) : WritesInFlight(a) # {}


\* The script has computed the split from a command line that gives a
\* positive batchSize and a readRatio.
ArgsGiven ==
    /\ aPc = "split"
    /\ args.batchSize.given
    /\ args.batchSize.k > 0
    /\ args.readRatio.given

\* C29: for every readRatio r in [0,1] and every positive batchSize given
\* on the command line, the split is computed from exactly r and
\* batchSize; r = 0 gives no read and batchSize writes, r = 1 gives
\* batchSize reads and no write.
C29_SplitUsesGivenArguments ==
    ArgsGiven =>
        /\ DoubleOf(readRatioArg.k, readRatioArg.den)
              = DoubleOf(args.readRatio.k, args.readRatio.den)
        /\ batchSizeArg = args.batchSize.k
        /\ aWrites = NumWritesOf(args.batchSize.k, args.readRatio.k,
                                 args.readRatio.den)
        /\ aReads = args.batchSize.k - aWrites
        /\ args.readRatio.k = 0 =>
              (aReads = 0 /\ aWrites = args.batchSize.k)
        /\ args.readRatio.k = args.readRatio.den =>
              (aReads = args.batchSize.k /\ aWrites = 0)

=============================================================================
